---- MODULE Spec2Model ----
(***************************************************************************)
(* View-frustum and camera algebra of core/frontend/src/ViewState.ts.      *)
(*                                                                         *)
(* Numbers are exact rationals <<n, d>> in lowest terms with d > 0, in the *)
(* units of the source (metres, radians are not needed: an angle is kept   *)
(* as the tangent of its half).  Points and vectors are triples of         *)
(* rationals, a Matrix3d is a triple of row vectors.  An optional argument *)
(* is the empty sequence (undefined) or a one-element sequence.            *)
(***************************************************************************)
EXTENDS Integers, Sequences, FiniteSets, TLC

VARIABLES view, last, ops, undo

vars == <<view, last, ops, undo>>

(***************************************************************************)
(* Bounds of the model.                                                    *)
(***************************************************************************)
MaxOps == 2

(***************************************************************************)
(* Exact rational arithmetic.                                              *)
(***************************************************************************)
Abs(i) == IF i < 0 THEN -i ELSE i

RECURSIVE GCD(_, _)
GCD(a, b) == IF b = 0 THEN a ELSE GCD(b, a % b)

\* n / d with the common factor g taken out
Lowest(n, d, g) == <<n \div g, d \div g>>

R(n, d) ==
  IF d < 0 THEN Lowest(-n, -d, GCD(Abs(n), Abs(d))) ELSE Lowest(n, d, GCD(Abs(n), Abs(d)))

I(n) == <<n, 1>>

Zero == I(0)
One == I(1)
Half == <<1, 2>>

RNeg(a) == <<-a[1], a[2]>>

\* n / d in lowest terms for a positive d
RAddSum(n, d) == Lowest(n, d, GCD(Abs(n), d))

\* a + b over the least common denominator, g being the greatest common
\* divisor of the two denominators
RAddOver(a, b, g) == RAddSum(a[1] * (b[2] \div g) + b[1] * (a[2] \div g), (a[2] \div g) * b[2])

RAdd(a, b) ==
  IF a[2] = 1 /\ b[2] = 1 THEN <<a[1] + b[1], 1>> ELSE RAddOver(a, b, GCD(a[2], b[2]))

RSub(a, b) == RAdd(a, RNeg(b))

\* The common factors are cancelled crosswise before multiplying, which
\* leaves the product in lowest terms
RMulCancelled(a, b, g1, g2) ==
  <<(a[1] \div g1) * (b[1] \div g2), (a[2] \div g2) * (b[2] \div g1)>>

RMul(a, b) ==
  IF a[2] = 1 /\ b[2] = 1 THEN <<a[1] * b[1], 1>>
  ELSE RMulCancelled(a, b, GCD(Abs(a[1]), b[2]), GCD(Abs(b[1]), a[2]))

\* 1 / a, undefined for a = 0
RInv(a) == CHOOSE r \in {IF a[1] < 0 THEN <<-a[2], -a[1]>> ELSE <<a[2], a[1]>>} : a[1] # 0

RDiv(a, b) == RMul(a, RInv(b))

RSign(a) == IF a[1] < 0 THEN -1 ELSE IF a[1] = 0 THEN 0 ELSE 1

\* The sign of n1/d1 - n2/d2 (d1, d2 > 0), by comparing the integer parts and
\* then the reciprocals of the fractional parts, so that nothing is multiplied
RECURSIVE RCmp(_, _, _, _)
RCmp(n1, d1, n2, d2) ==
  LET q1 == n1 \div d1
      q2 == n2 \div d2
      r1 == n1 % d1
      r2 == n2 % d2
  IN  IF d1 = d2 THEN (IF n1 < n2 THEN -1 ELSE IF n1 = n2 THEN 0 ELSE 1)
      ELSE IF q1 # q2 THEN (IF q1 < q2 THEN -1 ELSE 1)
      ELSE IF r1 = 0 \/ r2 = 0 THEN (IF r1 < r2 THEN -1 ELSE IF r1 = r2 THEN 0 ELSE 1)
      ELSE RCmp(d2, r2, d1, r1)

RLt(a, b) == RCmp(a[1], a[2], b[1], b[2]) < 0
RLe(a, b) == RCmp(a[1], a[2], b[1], b[2]) <= 0
RGt(a, b) == RLt(b, a)
RGe(a, b) == RLe(b, a)

RAbs(a) == <<Abs(a[1]), a[2]>>
RMax(a, b) == IF RLt(a, b) THEN b ELSE a
RMin(a, b) == IF RLt(b, a) THEN b ELSE a

RECURSIVE SqrtSearch(_, _, _)
SqrtSearch(n, lo, hi) ==
  IF lo >= hi THEN lo
  ELSE LET mid == (lo + hi + 1) \div 2
       IN  IF mid * mid <= n THEN SqrtSearch(n, mid, hi)
                             ELSE SqrtSearch(n, lo, mid - 1)

ISqrt(n) == SqrtSearch(n, 0, IF n < 46340 THEN n ELSE 46340)

IsSquare(n) == n >= 0 /\ ISqrt(n) * ISqrt(n) = n

\* Math.sqrt on the rationals whose root is rational; the inputs of the model
\* are chosen so that no other value is ever rooted.
RSqrt(a) == CHOOSE r \in {<<ISqrt(a[1]), ISqrt(a[2])>>} : RMul(r, r) = a

(***************************************************************************)
(* geometry-core: Point3d / Vector3d / Matrix3d.                           *)
(***************************************************************************)
V(x, y, z) == <<I(x), I(y), I(z)>>

VZero == V(0, 0, 0)

VAdd(a, b) == <<RAdd(a[1], b[1]), RAdd(a[2], b[2]), RAdd(a[3], b[3])>>
VSub(a, b) == <<RSub(a[1], b[1]), RSub(a[2], b[2]), RSub(a[3], b[3])>>
VScale(a, s) == <<RMul(a[1], s), RMul(a[2], s), RMul(a[3], s)>>

dotProduct(a, b) == RAdd(RAdd(RMul(a[1], b[1]), RMul(a[2], b[2])), RMul(a[3], b[3]))

crossProduct(a, b) ==
  << RSub(RMul(a[2], b[3]), RMul(a[3], b[2])),
     RSub(RMul(a[3], b[1]), RMul(a[1], b[3])),
     RSub(RMul(a[1], b[2]), RMul(a[2], b[1])) >>

\* Vector3d.magnitude: sqrt(x*x + y*y + z*z); a vector along one axis is
\* rooted without squaring its component.
magnitude(a) ==
  IF a[1] = Zero /\ a[2] = Zero THEN RAbs(a[3])
  ELSE IF a[1] = Zero /\ a[3] = Zero THEN RAbs(a[2])
  ELSE IF a[2] = Zero /\ a[3] = Zero THEN RAbs(a[1])
  ELSE RSqrt(dotProduct(a, a))

distance(p, q) == magnitude(VSub(q, p))

\* Geometry.smallMetricDistance
smallMetricDistance == <<1, 1000000>>

\* Geometry.correctSmallMetricDistance
correctSmallMetricDistance(d) == IF RLt(RAbs(d), smallMetricDistance) THEN Zero ELSE d

\* Vector3d.normalizeWithLength: [v |-> <<>> or <<unit>>, mag |-> corrected length]
normalizeWithLength(a) ==
  LET scaled(m) == IF m = Zero THEN [v |-> <<>>, mag |-> Zero]
                   ELSE [v |-> <<VScale(a, RInv(m))>>, mag |-> m]
  IN  scaled(correctSmallMetricDistance(magnitude(a)))

\* Vector3d.normalize
normalize(a) == normalizeWithLength(a).v

\* Matrix3d (rows) times vector, and its transpose times vector
multiplyVector(m, a) == <<dotProduct(m[1], a), dotProduct(m[2], a), dotProduct(m[3], a)>>

multiplyTransposeVector(m, a) ==
  VAdd(VAdd(VScale(m[1], a[1]), VScale(m[2], a[2])), VScale(m[3], a[3]))

transpose(m) ==
  << <<m[1][1], m[2][1], m[3][1]>>,
     <<m[1][2], m[2][2], m[3][2]>>,
     <<m[1][3], m[2][3], m[3][3]>> >>

determinant(m) == dotProduct(m[1], crossProduct(m[2], m[3]))

Identity == <<V(1, 0, 0), V(0, 1, 0), V(0, 0, 1)>>

createRows(x, y, z) == <<x, y, z>>

(***************************************************************************)
(* geometry-core: Constant.                                                *)
(***************************************************************************)
oneMillimeter == <<1, 1000>>
oneCentimeter == <<1, 100>>
oneMeter == I(1)
oneKilometer == I(1000)
diameterOfEarth == I(12742000)

(***************************************************************************)
(* ViewStatus (the members the view algebra returns).                      *)
(***************************************************************************)
Success == "Success"
InvalidWindow == "InvalidWindow"
MinWindow == "MinWindow"
MaxWindow == "MaxWindow"
MaxZoom == "MaxZoom"
MaxDisplayDepth == "MaxDisplayDepth"
InvalidUpVector == "InvalidUpVector"
InvalidTargetPoint == "InvalidTargetPoint"
InvalidLens == "InvalidLens"

(***************************************************************************)
(* Optional values and JavaScript truthiness of an optional number.        *)
(***************************************************************************)
None == <<>>
Some(x) == <<x>>
Truthy(opt) == opt # None /\ opt[1] # Zero

(***************************************************************************)
(* geometry-core: rotations about an axis and almost-equality.  An angle   *)
(* is given by the tangent t of its half: its cosine is (1 - t^2) /        *)
(* (1 + t^2) and its sine 2t / (1 + t^2).                                  *)
(***************************************************************************)
\* Matrix3d.createRotationAroundVector: undefined for an axis without length
createRotationAroundVector(axis, angle) ==
  LET cross(u) == << <<Zero, RNeg(u[3]), u[2]>>, <<u[3], Zero, RNeg(u[1])>>,
                     <<RNeg(u[2]), u[1], Zero>> >>
      row(u, i, c, s) == VAdd(VAdd(VScale(Identity[i], c), VScale(cross(u)[i], s)),
                              VScale(u, RMul(RSub(One, c), u[i])))
      around(u, c, s) == <<row(u, 1, c, s), row(u, 2, c, s), row(u, 3, c, s)>>
      \* the cosine and the sine from t, the tangent of half the angle, and
      \* tt, its square
      turned(u, t, tt) ==
        around(u, RDiv(RSub(One, tt), RAdd(One, tt)), RDiv(RMul(I(2), t), RAdd(One, tt)))
      made(u, t) == IF u = None THEN None ELSE Some(turned(u[1], t, RMul(t, t)))
  IN  made(normalize(axis), angle.tanHalf)

\* Point3d.isAlmostEqual / Vector3d.isAlmostEqual, and Matrix3d.isAlmostEqual
\* row by row: every coordinate within Geometry.smallMetricDistance
isAlmostEqual(a, b) ==
  \A i \in 1..Len(a) : RLe(RAbs(RSub(a[i], b[i])), smallMetricDistance)

isAlmostEqualMatrix(a, b) == \A i \in 1..3 : isAlmostEqual(a[i], b[i])

(***************************************************************************)
(* ViewState / ViewState3d.  A view is the record                          *)
(*   kind, cameraOn, origin, extents, rotation,                            *)
(*   camera = [eye, focusDist, lens], forceMinFrontDist, limits            *)
(* where limits is the optional _extentLimits override and camera.lens is  *)
(* tan(lens angle / 2).                                                    *)
(***************************************************************************)
Spatial == "SpatialViewState"
Orthographic == "OrthographicViewState"

\* A view of a drawing model is the record
\*   kind, origin, delta, angle, limits, modelLimits, tree
\* where origin and delta are pairs, modelLimits is the optional cache
\* _modelLimits and tree the optional range of the viewed model's tile tree.
Drawing == "DrawingViewState"

\* ViewState.is3d
is3d(v) == v.kind \in {Spatial, Orthographic}

\* Fault variant of supportsCamera: the override is not consulted
supportsCameraAlways(v) == TRUE

\* ViewState3d.supportsCamera, overridden by OrthographicViewState
supportsCamera(v) == v.kind # Orthographic

\* Fault variant of enableCamera: supportsCamera is not consulted
enableCameraAlways(v) == [v EXCEPT !.cameraOn = TRUE]

\* ViewState3d.enableCamera
enableCamera(v) == IF supportsCamera(v) THEN [v EXCEPT !.cameraOn = TRUE] ELSE v

\* Fault variant of turnCameraOff: the camera flag is left as it was
turnCameraOffSkipped(v) == v

\* ViewState3d.turnCameraOff
turnCameraOff(v) == [v EXCEPT !.cameraOn = FALSE]

\* SpatialViewState.defaultExtentLimits
defaultExtentLimits(v) == [min |-> oneMillimeter, max |-> diameterOfEarth]

\* Fault variant of the getter extentLimits: the override is not consulted
extentLimitsDefaulted(v) == defaultExtentLimits(v)

\* ViewState.extentLimits (getter)
extentLimits(v) == IF v.limits # None THEN v.limits[1] ELSE defaultExtentLimits(v)

\* Fault variant of resetExtentLimits: the cache of a drawing view is
\* cleared with the override
resetExtentLimitsInvalidating(v) == [v EXCEPT !.limits = None, !.modelLimits = None]

\* ViewState.extentLimits (setter) and ViewState.resetExtentLimits
setExtentLimits(v, limits) == [v EXCEPT !.limits = Some(limits)]
resetExtentLimits(v) == [v EXCEPT !.limits = None]

\* ViewState3d.setOrigin / setExtents / setRotation and the camera setters
\* Fault variant of setExtents: the extents are left as they were
setExtentsSkipped(v, d) == v

\* (ViewState2d.setOrigin / setExtents keep x and y)
setOrigin(v, p) ==
  IF is3d(v) THEN [v EXCEPT !.origin = p] ELSE [v EXCEPT !.origin = <<p[1], p[2]>>]
setExtents(v, d) ==
  IF is3d(v) THEN [v EXCEPT !.extents = d] ELSE [v EXCEPT !.delta = <<d[1], d[2]>>]
setRotation(v, m) == [v EXCEPT !.rotation = m]
setEyePoint(v, p) == [v EXCEPT !.camera.eye = p]
setFocusDistance(v, d) == [v EXCEPT !.camera.focusDist = d]
setLensAngle(v, a) == [v EXCEPT !.camera.lens = a]

\* getOrigin / getExtents / getRotation of ViewState3d and of ViewState2d
getOrigin(v) == IF is3d(v) THEN v.origin ELSE <<v.origin[1], v.origin[2], Zero>>
getExtents(v) == IF is3d(v) THEN v.extents ELSE <<v.delta[1], v.delta[2], Zero>>
getRotation(v) ==
  IF is3d(v) THEN v.rotation ELSE createRotationAroundVector(V(0, 0, 1), v.angle)[1]

\* Range3d.maxLength: the longest axis of a range
maxLength(range) ==
  RMax(RMax(RSub(range.high[1], range.low[1]), RSub(range.high[2], range.low[2])),
       RSub(range.high[3], range.low[3]))

\* DrawingViewState.defaultExtentLimits: the limits, and the view with the
\* cache the getter may have filled
defaultExtentLimitsDrawing(v) ==
  LET cached(limits) == [limits |-> limits, view |-> [v EXCEPT !.modelLimits = Some(limits)]]
  IN  IF v.modelLimits # None THEN [limits |-> v.modelLimits[1], view |-> v]
      ELSE IF v.tree = None
        THEN [limits |-> [min |-> oneMillimeter, max |-> diameterOfEarth], view |-> v]
      ELSE cached([min |-> oneMillimeter, max |-> RMul(I(2), maxLength(v.tree[1]))])

\* ViewState.extentLimits (getter) of a drawing view
extentLimitsDrawing(v) ==
  IF v.limits # None THEN [limits |-> v.limits[1], view |-> v]
  ELSE defaultExtentLimitsDrawing(v)

\* The public field ViewState3d.forceMinFrontDist, assigned by the caller
setForceMinFrontDist(v, d) == [v EXCEPT !.forceMinFrontDist = d]

\* Fault variant of minimumFrontDistance: forceMinFrontDist is not consulted
minimumFrontDistanceDefault(v) == RMul(R(152, 10), oneCentimeter)

\* ViewState3d.minimumFrontDistance
minimumFrontDistance(v) == RMax(RMul(R(152, 10), oneCentimeter), v.forceMinFrontDist)

\* ViewState3d.getBackDistance / getFrontDistance
getBackDistance(v) == multiplyVector(v.rotation, VSub(v.camera.eye, v.origin))[3]
getFrontDistance(v) == RSub(getBackDistance(v), v.extents[3])

\* ViewState3d.calcLensAngle: 2 * atan2(maxDelta / 2, focusDist), kept as the
\* tangent of its half, which is defined for a positive focus distance.
calcLensAngle(v) ==
  LET maxDelta == RMax(v.extents[1], v.extents[2])
  IN  CHOOSE t \in {RDiv(RMul(maxDelta, Half), v.camera.focusDist)} : RSign(v.camera.focusDist) > 0

\* ViewState3d.getTargetPoint / ViewState.getCenter
getCenter(v) == VAdd(v.origin, VScale(multiplyTransposeVector(v.rotation, v.extents), Half))

getTargetPoint(v) ==
  IF ~v.cameraOn THEN getCenter(v)
  ELSE VAdd(v.camera.eye, VScale(v.rotation[3], RNeg(v.camera.focusDist)))

\* Fault variant of limitWindowSize: an ignored error also skips the clamp
limitWindowSizeSkipIgnored(limit, val, ignoreError, error) ==
  IF ignoreError THEN [v |-> val, error |-> error]
  ELSE IF RLt(val, limit.min) THEN [v |-> limit.min, error |-> MinWindow]
  ELSE IF RGt(val, limit.max) THEN [v |-> limit.max, error |-> MaxWindow]
  ELSE [v |-> val, error |-> error]

\* The closure limitWindowSize of ViewState.validateViewDelta: the clamped
\* value and the error it raises (Success for none).
limitWindowSize(limit, val, ignoreError, error) ==
  IF RLt(val, limit.min)
    THEN [v |-> limit.min, error |-> IF ignoreError THEN error ELSE MinWindow]
  ELSE IF RGt(val, limit.max)
    THEN [v |-> limit.max, error |-> IF ignoreError THEN error ELSE MaxWindow]
  ELSE [v |-> val, error |-> error]

\* ViewState.showFrustumErrorMessage: the keys of the messages it sends to
\* IModelApp.notifications, none for a status it has no key for
showFrustumErrorMessage(status) ==
  IF status \in {InvalidWindow, MaxWindow, MinWindow, MaxZoom} THEN <<status>> ELSE <<>>

\* ViewState.validateViewDelta: the delta as it leaves the call, the status
\* and the messages sent
validateViewDelta(v, delta, messageNeeded) ==
  LET limited(x, y, z) ==
        [delta |-> <<x.v, y.v, z.v>>, status |-> z.error,
         messages |-> IF messageNeeded /\ z.error # Success
                        THEN showFrustumErrorMessage(z.error) ELSE <<>>]
      deep(limit, x, y) == limited(x, y, limitWindowSize(limit, delta[3], TRUE, y.error))
      high(limit, x) == deep(limit, x, limitWindowSize(limit, delta[2], FALSE, x.error))
      wide(limit) == high(limit, limitWindowSize(limit, delta[1], FALSE, Success))
  IN  wide(extentLimits(v))

\* Fault variant of calculateMaxDepth: the skew of the Z axis is not consulted
calculateMaxDepthNoSkew(delta, zVec) ==
  [size |-> RMax(delta[1], delta[2]), ratio |-> I(100000000)]

\* ViewState3d.calculateMaxDepth.  The result max(delta.x, delta.y) *
\* maxDepthRatio is kept as its two factors, size and ratio, because the
\* product of a large view by 1.0E8 is beyond TLC's 32-bit integers.
calculateMaxDepth(delta, zVec) ==
  LET depthRatioLimit == I(100000000)
      maxTransformRowRatio == I(100000)
      maxDepthRatio(minXYComponent) ==
        IF minXYComponent = Zero THEN depthRatioLimit
        ELSE RMin(RDiv(maxTransformRowRatio, minXYComponent), depthRatioLimit)
  IN  [size |-> RMax(delta[1], delta[2]),
       ratio |-> maxDepthRatio(RMin(RAbs(zVec[1]), RAbs(zVec[2])))]

\* depth > size * ratio for a size that is not negative
exceedsDepth(depth, maxDepth) ==
  IF maxDepth.size = Zero THEN RGt(depth, Zero)
  ELSE RGt(RDiv(depth, maxDepth.size), maxDepth.ratio)

\* Fault variant of lookAtAxes: the up vector is kept as the Y row instead of
\* being rebuilt perpendicular to Z (line 1114 skipped)
lookAtAxesKeepUp(yVec0, zVec) ==
  LET xn == normalizeWithLength(crossProduct(yVec0, zVec))
  IN  IF RLt(xn.mag, smallMetricDistance) THEN None
      ELSE Some(createRows(xn.v[1], yVec0, zVec))

\* ViewState3d.lookAt, the rows of the rotation from the unit up vector and
\* the unit Z: None where the source returns InvalidUpVector
lookAtAxes(yVec0, zVec) ==
  LET rows(xVec, yn) ==
        IF RLt(yn.mag, smallMetricDistance) THEN None
        ELSE Some(createRows(xVec, yn.v[1], zVec))
      upright(xVec) == rows(xVec, normalizeWithLength(crossProduct(zVec, xVec)))
      crossed(xn) == IF RLt(xn.mag, smallMetricDistance) THEN None ELSE upright(xn.v[1])
  IN  crossed(normalizeWithLength(crossProduct(yVec0, zVec)))

\* Fault variant of lookAtOrigin: the rectangle hangs from the eye axis by
\* its corner instead of being centred on it
lookAtOriginCorner(eye, rotation, delta, backDistance) ==
  VAdd(VAdd(VAdd(eye, VScale(rotation[3], RNeg(backDistance))),
            VScale(rotation[1], RNeg(delta[1]))),
       VScale(rotation[2], RNeg(delta[2])))

\* ViewState3d.lookAt, the origin: from the eye to the centre of the back
\* plane, then left half the width and down half the height
lookAtOrigin(eye, rotation, delta, backDistance) ==
  VAdd(VAdd(VAdd(eye, VScale(rotation[3], RNeg(backDistance))),
            VScale(rotation[1], RMul(RNeg(Half), delta[1]))),
       VScale(rotation[2], RMul(RNeg(Half), delta[2])))

\* ViewState3d.lookAt, the back distance from the one asked for (lines
\* 1126-1129)
lookAtBackDistance(back0, focusDist) ==
  LET behind(back1) == IF RLt(back1, focusDist) THEN RAdd(focusDist, oneMillimeter) ELSE back1
  IN  behind(RMax(back0, RAdd(focusDist, RMul(Half, oneMeter))))

\* ViewState3d.lookAt, the front distance from the one asked for (lines 1125
\* and 1131-1135)
lookAtFrontDistance(front0, focusDist, minFrontDist) ==
  LET ahead(front2) == IF RLt(front2, minFrontDist) THEN minFrontDist ELSE front2
      before(front1) ==
        ahead(IF RGt(front1, focusDist) THEN RSub(focusDist, minFrontDist) ELSE front1)
  IN  before(RMax(front0, RMul(Half, oneMeter)))

\* Fault variant of lookAtFrontDelta: the rectangle on the focus plane is
\* validated as it is
lookAtFrontDeltaUnscaled(delta, frontDistance, focusDist) == delta

\* ViewState3d.lookAt, the view delta on the front plane (line 1139)
lookAtFrontDelta(delta, frontDistance, focusDist) ==
  VScale(delta, RDiv(frontDistance, focusDist))

\* ViewState3d.lookAt up to its last return of an error: the status and, for
\* Success, the values the setters are about to receive.  newExtents is an
\* optional pair <<x, y>>, the two distances are optional numbers.  The steps
\* are written last first; each receives the values the source has computed
\* before it.
lookAtSolve(v, eyePoint, targetPoint, upVector, newExtents, frontDistanceIn, backDistanceIn) ==
  LET fail(s) == [status |-> s]
      \* lines 1141-1149
      validated(stat, rotation, focusDist, delta, frontDistance, backDistance) ==
        IF stat # Success THEN fail(stat)
        ELSE IF exceedsDepth(delta[3], calculateMaxDepth(delta, rotation[3]))
          THEN fail(MaxDisplayDepth)
        ELSE [status |-> Success, rotation |-> rotation, focusDist |-> focusDist,
              origin |-> lookAtOrigin(eyePoint, rotation, delta, backDistance),
              delta |-> delta, frontDistance |-> frontDistance, backDistance |-> backDistance]
      \* lines 1139-1140
      sized(rotation, focusDist, delta, frontDistance, backDistance) ==
        validated(validateViewDelta(v, lookAtFrontDelta(delta, frontDistance, focusDist),
                                    FALSE).status,
                  rotation, focusDist, delta, frontDistance, backDistance)
      \* line 1137
      bounded(rotation, focusDist, delta0, frontDistance, backDistance) ==
        sized(rotation, focusDist, <<delta0[1], delta0[2], RSub(backDistance, frontDistance)>>,
              frontDistance, backDistance)
      \* lines 1118-1135
      oriented(axes, focusDist, minFrontDist) ==
        IF axes = None THEN fail(InvalidUpVector)
        ELSE bounded(axes[1], focusDist,
                     IF newExtents # None
                       THEN <<RAbs(newExtents[1][1]), RAbs(newExtents[1][2]), v.extents[3]>>
                       ELSE v.extents,
                     lookAtFrontDistance(IF Truthy(frontDistanceIn) THEN frontDistanceIn[1]
                                                                    ELSE getFrontDistance(v),
                                         focusDist, minFrontDist),
                     lookAtBackDistance(IF Truthy(backDistanceIn) THEN backDistanceIn[1]
                                                                  ELSE getBackDistance(v),
                                        focusDist))
      \* lines 1107-1115
      aimed(yVec0, zn, minFrontDist) ==
        IF RLe(zn.mag, minFrontDist) THEN fail(InvalidTargetPoint)
        ELSE oriented(lookAtAxes(yVec0, zn.v[1]), zn.mag, minFrontDist)
      \* lines 1099-1105
      started(yVec0) ==
        IF yVec0 = None THEN fail(InvalidUpVector)
        ELSE aimed(yVec0[1], normalizeWithLength(VSub(eyePoint, targetPoint)),
                   minimumFrontDistance(v))
  IN  started(normalize(upVector))

\* ViewState3d.calcLensAngle stored through setLensAngle (line 1156)
updateLensAngle(v) == setLensAngle(v, calcLensAngle(v))

\* ViewState3d.lookAt, the setters it ends with
lookAtCommit(v, eyePoint, s) ==
  [status |-> Success,
   view |-> enableCamera(updateLensAngle(
              setExtents(setOrigin(setFocusDistance(setRotation(setEyePoint(v, eyePoint),
                                                                s.rotation),
                                                    s.focusDist),
                                   s.origin),
                         s.delta))),
   out |-> [frontDistance |-> s.frontDistance, backDistance |-> s.backDistance]]

\* ViewState3d.lookAt, what it returns and leaves behind for a solution s
lookAtReturn(v, eyePoint, s) ==
  IF s.status # Success
    THEN [status |-> s.status, view |-> v,
          out |-> [frontDistance |-> Zero, backDistance |-> Zero]]
    ELSE lookAtCommit(v, eyePoint, s)

\* Fault variant of lookAt: the eye point is stored before the arguments are
\* validated
lookAtEyeFirst(v, eyePoint, targetPoint, upVector, newExtents, frontDistanceIn, backDistanceIn) ==
  lookAtReturn(setEyePoint(v, eyePoint), eyePoint,
               lookAtSolve(v, eyePoint, targetPoint, upVector, newExtents,
                           frontDistanceIn, backDistanceIn))

\* Fault variant of lookAt: the eye-to-target distance is tested before the
\* up vector
lookAtTargetFirst(v, eyePoint, targetPoint, upVector, newExtents, frontDistanceIn, backDistanceIn) ==
  lookAtReturn(v, eyePoint,
               IF RLe(distance(targetPoint, eyePoint), minimumFrontDistance(v))
                 THEN [status |-> InvalidTargetPoint]
                 ELSE lookAtSolve(v, eyePoint, targetPoint, upVector, newExtents,
                                  frontDistanceIn, backDistanceIn))

\* ViewState3d.lookAt: the status, the view after the call and, as out, the
\* front and back distances the call settled on
lookAt(v, eyePoint, targetPoint, upVector, newExtents, frontDistanceIn, backDistanceIn) ==
  lookAtReturn(v, eyePoint,
               lookAtSolve(v, eyePoint, targetPoint, upVector, newExtents,
                           frontDistanceIn, backDistanceIn))

(***************************************************************************)
(* ViewState3d.lookAtUsingLensAngle.  An Angle is the record of its        *)
(* radians and of the tangent of its half, Math.tan(fov.radians / 2.0).    *)
(***************************************************************************)
Angle(radians, tanHalf) == [radians |-> radians, tanHalf |-> tanHalf]

\* Math.PI, to nine digits: 314159265 / 100000000 in lowest terms
PI == <<62831853, 20000000>>

lookAtUsingLensAngle(v, eyePoint, targetPoint, upVector, fov, frontDistance, backDistance) ==
  LET fail(s) == [status |-> s, view |-> v,
                  out |-> [frontDistance |-> Zero, backDistance |-> Zero]]
      \* lines 1181-1185: delta.scale(extent / longAxis), each component
      \* divided by the long axis before it is multiplied by the extent, which
      \* is the same number and keeps the intermediate value small
      sized(extent, longAxis) ==
        lookAt(v, eyePoint, targetPoint, upVector,
               Some(<<RMul(RDiv(v.extents[1], longAxis), extent),
                      RMul(RDiv(v.extents[2], longAxis), extent)>>),
               frontDistance, backDistance)
      \* lines 1174-1182
      focused(focusDist) ==
        IF RLe(focusDist, oneMillimeter) THEN fail(InvalidTargetPoint)
        ELSE IF RLt(fov.radians, R(1, 10000)) \/ RGt(fov.radians, PI) THEN fail(InvalidLens)
        ELSE sized(RMul(RMul(I(2), fov.tanHalf), focusDist), RMax(v.extents[1], v.extents[2]))
  IN  focused(magnitude(VSub(targetPoint, eyePoint)))

(***************************************************************************)
(* imodeljs-common: Frustum.  A frustum is the tuple of its 8 corners in   *)
(* the order of the enum Npc (index = Npc value + 1).                      *)
(***************************************************************************)
LeftBottomRear == 1
RightBottomRear == 2
LeftTopRear == 3
RightTopRear == 4
LeftBottomFront == 5
RightBottomFront == 6
LeftTopFront == 7
RightTopFront == 8

tripleProduct(u, v, w) == dotProduct(u, crossProduct(v, w))

\* Frustum.hasMirror
hasMirror(pts) ==
  LET u == VSub(pts[LeftBottomFront], pts[LeftBottomRear])
      v == VSub(pts[LeftTopRear], pts[LeftBottomRear])
      w == VSub(pts[RightBottomRear], pts[LeftBottomRear])
  IN  RSign(tripleProduct(u, v, w)) > 0

\* Frustum.fixPointOrder: a mirrored frustum has its left and right corners swapped
fixPointOrder(pts) ==
  IF ~hasMirror(pts) THEN pts
  ELSE <<pts[2], pts[1], pts[4], pts[3], pts[6], pts[5], pts[8], pts[7]>>

\* Frustum.getCenter
frustumCenter(pts) ==
  VAdd(pts[RightTopFront], VScale(VSub(pts[LeftBottomRear], pts[RightTopFront]), Half))

(***************************************************************************)
(* geometry-core: Matrix3d.createRigidFromColumns (AxisOrder.XYZ),         *)
(* Matrix3d.inverse, and frontend StandardView.adjustToStandardRotation.   *)
(***************************************************************************)
unitCrossProduct(a, b) == normalize(crossProduct(a, b))

\* The optional matrix whose COLUMNS are the rigid axes built from a and b
createRigidFromColumns(a, b) ==
  LET third(a1, c1, b1) ==
        IF b1 = None THEN None ELSE Some(transpose(<<a1[1], b1[1], c1[1]>>))
      second(a1, c1) ==
        IF c1 = None THEN None ELSE third(a1, c1, unitCrossProduct(c1[1], a))
      first(a1) == IF a1 = None THEN None ELSE second(a1, unitCrossProduct(a1[1], b))
  IN  first(normalize(a))

getColumn(m, i) == <<m[1][i], m[2][i], m[3][i]>>

\* Matrix3d.inverse: undefined for a singular matrix
inverse(m) ==
  LET c(i, j) == crossProduct(m[i], m[j])
      divided(f) == Some(transpose(<<VScale(c(2, 3), f), VScale(c(3, 1), f), VScale(c(1, 2), f)>>))
      inverted(det) == IF det = Zero THEN None ELSE divided(RInv(det))
  IN  inverted(determinant(m))

\* The standard view rotations with rational entries (Top, Bottom, Left,
\* Right, Front, Back)
StandardViewMatrices ==
  << Identity,
     <<V(-1, 0, 0), V(0, 1, 0), V(0, 0, -1)>>,
     <<V(0, -1, 0), V(0, 0, 1), V(-1, 0, 0)>>,
     <<V(0, 1, 0), V(0, 0, 1), V(1, 0, 0)>>,
     <<V(1, 0, 0), V(0, 0, 1), V(0, -1, 0)>>,
     <<V(-1, 0, 0), V(0, 0, 1), V(0, 1, 0)>> >>

\* Matrix3d.maxDiff
maxDiff(a, b) ==
  LET d(i, j) == RAbs(RSub(a[i][j], b[i][j]))
      rowMax(i) == RMax(RMax(d(i, 1), d(i, 2)), d(i, 3))
  IN  RMax(RMax(rowMax(1), rowMax(2)), rowMax(3))

\* StandardView.adjustToStandardRotation: the first standard rotation within
\* 1.0e-7 of the matrix replaces it
adjustToStandardRotation(m) ==
  LET snapped(close) ==
        IF close = {} THEN m
        ELSE StandardViewMatrices[CHOOSE i \in close : \A j \in close : i <= j]
  IN  snapped({i \in 1..Len(StandardViewMatrices) :
                 RLe(maxDiff(StandardViewMatrices[i], m), <<1, 10000000>>)})

(***************************************************************************)
(* ViewState.setupFromFrustum (the base solver).                           *)
(***************************************************************************)
\* Fault variant of setupFromFrustumMessageNeeded: the message is asked for
setupFromFrustumMessageWanted == TRUE

\* ViewState.setupFromFrustum, the messageNeeded it passes to
\* validateViewDelta (line 540)
setupFromFrustumMessageNeeded == FALSE

\* Fault variant of callerFrustum: the solver works on the caller's frustum
callerFrustumShared(inFrustum, worked) == worked

\* Frustum.clone at line 499: the caller's frustum after the call, worked
\* being the frustum the solver has reordered and written its origin into
callerFrustum(inFrustum, worked) == inFrustum

\* The status, the view after the call, the messages sent and the caller's
\* frustum after the call
setupFromFrustum(v, inFrustum) ==
  LET fail == [status |-> InvalidWindow, view |-> v, messages |-> <<>>,
               frustum |-> callerFrustum(inFrustum, fixPointOrder(inFrustum))]
      \* lines 536 and 542-545, the status of validateViewDelta being
      \* dropped; viewOrg is the first corner of the frustum worked on
      stored(viewOrg, validated, viewRot) ==
        [status |-> Success,
         view |-> setRotation(setExtents(setOrigin(v, viewOrg), validated.delta), viewRot),
         messages |-> validated.messages,
         frustum |-> callerFrustum(inFrustum,
                                   [fixPointOrder(inFrustum) EXCEPT ![LeftBottomRear] = viewOrg])]
      \* lines 536-540
      measured(center, viewRot, viewDiagRoot) ==
        stored(VAdd(center, VScale(viewDiagRoot, RNeg(Half))),
               validateViewDelta(v, multiplyVector(viewRot, viewDiagRoot),
                                 setupFromFrustumMessageNeeded),
               viewRot)
      \* lines 528-533
      sized(center, frustumX, frustumY, viewRot, xDir, yDir, zDir, zSize) ==
        IF RSign(zSize) < 0 THEN fail
        ELSE measured(center, viewRot,
                      VAdd(VAdd(VScale(xDir, dotProduct(xDir, frustumX)),
                                VScale(yDir, dotProduct(yDir, frustumY))),
                           VScale(zDir, zSize)))
      \* lines 523-527
      inverted(center, frustumX, frustumY, frustumZ, viewRot, xDir, yDir, zDir) ==
        IF viewRot = None THEN fail
        ELSE sized(center, frustumX, frustumY, viewRot[1], xDir, yDir, zDir,
                   dotProduct(zDir, frustumZ))
      \* lines 517-522
      adjusted(center, frustumX, frustumY, frustumZ, frustMatrix) ==
        inverted(center, frustumX, frustumY, frustumZ, inverse(frustMatrix),
                 getColumn(frustMatrix, 1), getColumn(frustMatrix, 2), getColumn(frustMatrix, 3))
      \* lines 511-515
      rigid(center, frustumX, frustumY, frustumZ, frustMatrix) ==
        IF frustMatrix = None THEN fail
        ELSE adjusted(center, frustumX, frustumY, frustumZ,
                      adjustToStandardRotation(frustMatrix[1]))
      \* line 510
      edged(center, frustumX, frustumY, frustumZ) ==
        rigid(center, frustumX, frustumY, frustumZ, createRigidFromColumns(frustumX, frustumY))
      \* lines 501-508 and the centre of line 536
      ordered(frustPts) ==
        edged(frustumCenter(frustPts),
              VSub(frustPts[RightBottomRear], frustPts[LeftBottomRear]),
              VSub(frustPts[LeftTopRear], frustPts[LeftBottomRear]),
              VSub(frustPts[LeftBottomFront], frustPts[LeftBottomRear]))
  IN  ordered(fixPointOrder(inFrustum))

(***************************************************************************)
(* ViewState3d.setupFromFrustum: the status, the view after the call, as   *)
(* out the status of the base solver, and the messages the base solver     *)
(* sent.                                                                   *)
(***************************************************************************)
\* Fault variant of flatViewFractionTolerance: ten times too wide
flatViewFractionToleranceWide == R(1, 100000)

\* ViewState3d.setupFromFrustum, its local flatViewFractionTolerance
flatViewFractionTolerance == <<1, 1000000>>

setupFromFrustum3d(v, frustum) ==
  LET \* lines 1029-1036
      stored(v1, eyePoint, focusDistance, viewOrg, viewDelta) ==
        [status |-> Success,
         view |-> enableCamera(updateLensAngle(
                    setExtents(setOrigin(setFocusDistance(setEyePoint(v1, eyePoint),
                                                          focusDistance),
                                         viewOrg),
                               viewDelta))),
         out |-> Success]
      \* lines 1025-1027
      focused(v1, viewDelta, zDir, frustOrgToEye, eyePoint, backDistance, focusDistance,
              focalFraction) ==
        stored(v1, eyePoint, focusDistance,
               VAdd(VAdd(eyePoint, VScale(frustOrgToEye, RNeg(focalFraction))),
                    VScale(zDir, RSub(focusDistance, backDistance))),
               <<RMul(viewDelta[1], focalFraction), RMul(viewDelta[2], focalFraction),
                 viewDelta[3]>>)
      \* line 1023
      distanced(v1, viewDelta, zDir, frustOrgToEye, eyePoint, backDistance, focusDistance) ==
        focused(v1, viewDelta, zDir, frustOrgToEye, eyePoint, backDistance, focusDistance,
                RDiv(focusDistance, backDistance))
      \* lines 1019-1022
      eyed(v1, viewDelta, zDir, frustOrgToEye, backDistance) ==
        distanced(v1, viewDelta, zDir, frustOrgToEye,
                  VAdd(frustum[LeftBottomRear], frustOrgToEye), backDistance,
                  RSub(backDistance, RMul(viewDelta[3], Half)))
      \* line 1021
      directed(v1, viewDelta, zDir, frustOrgToEye) ==
        eyed(v1, viewDelta, zDir, frustOrgToEye, dotProduct(frustOrgToEye, zDir))
      \* lines 1014-1018
      tapered(v1, compression) ==
        directed(v1, v1.extents, v1.rotation[3],
                 VScale(VSub(frustum[LeftBottomFront], frustum[LeftBottomRear]),
                        RInv(RSub(One, compression))))
      \* lines 1005-1012: xFront > xBack * (1 + tolerance) is taken divided
      \* through by xBack, which is positive once the base solver has accepted
      \* the frustum
      compared(v1, compression) ==
        IF RGt(compression, RAdd(One, flatViewFractionTolerance))
          THEN [status |-> InvalidWindow, view |-> v1, out |-> Success]
        ELSE IF RGe(compression, RSub(One, flatViewFractionTolerance))
          THEN [status |-> Success, view |-> v1, out |-> Success]
        ELSE tapered(v1, compression)
      \* lines 994-1003
      solved(base) ==
        IF base.status # Success
          THEN [status |-> base.status, view |-> base.view, out |-> base.status]
          ELSE compared(turnCameraOff(base.view),
                        RDiv(distance(frustum[LeftBottomFront], frustum[RightBottomFront]),
                             distance(frustum[LeftBottomRear], frustum[RightBottomRear])))
      sent(r, messages, inFrustum) ==
        [status |-> r.status, view |-> r.view, out |-> r.out, messages |-> messages,
         frustum |-> inFrustum]
      called(base) == sent(solved(base), base.messages, base.frustum)
  IN  called(setupFromFrustum(v, frustum))

(***************************************************************************)
(* ViewState.computeWorldToNpc and calculateFrustum.  The Map4d is kept as *)
(* the frustum it was built from: origin, the three edge vectors of the    *)
(* back corner and the front/back fraction.                                *)
(***************************************************************************)
nearScale24 == <<3, 10000>>

\* The integer vector with coprime components along a
Primitive(a) ==
  LET l12 == (a[1][2] \div GCD(a[1][2], a[2][2])) * a[2][2]
      l == (l12 \div GCD(l12, a[3][2])) * a[3][2]
      n(i) == a[i][1] * (l \div a[i][2])
      g == GCD(GCD(Abs(n(1)), Abs(n(2))), Abs(n(3)))
  IN  IF g = 0 THEN VZero ELSE V(n(1) \div g, n(2) \div g, n(3) \div g)

\* Map4d.createVectorFrustum: undefined when the edge vectors are dependent,
\* which is a property of their directions alone
createVectorFrustum(origin, uVector, vVector, wVector, fraction) ==
  IF tripleProduct(Primitive(uVector), Primitive(vVector), Primitive(wVector)) = Zero THEN None
  ELSE Some([origin |-> origin, uVector |-> uVector, vVector |-> vVector, wVector |-> wVector,
             fraction |-> RMax(fraction, R(1, 100000000))])

\* Fault variant of guardLocals: the guard's depth is written to the extents
guardLocalsShared(v, eyeToOrigin, zDelta) ==
  [v EXCEPT !.extents = <<@[1], @[2], zDelta>>]

\* The view after lines 422-442: eyeToOrigin is a vector made at line 422 and
\* zDelta a number copied at line 426, so the assignments of lines 438 and
\* 442 write neither the origin nor the extents of the view
guardLocals(v, eyeToOrigin, zDelta) == v

\* Fault variant of limitedBack: the back plane is left where it is
limitedBackKept(zBack) == zBack

\* Lines 435-439: zBack no further than maximumBackClip behind the eye
limitedBack(zBack) ==
  IF RGt(RNeg(zBack), RMul(I(10), oneKilometer))
    THEN RNeg(RMul(I(10), oneKilometer)) ELSE zBack

\* ViewState.computeWorldToNpc with its three arguments given.
\* view: the view after the call
computeWorldToNpcOf(v, viewRot, inOrigin, delta) ==
  LET \* line 473
      mapped(after, origin, xExtent, yExtent, zExtent, frustFraction) ==
        [map |-> createVectorFrustum(origin, xExtent, yExtent, zExtent, frustFraction),
         frustFraction |-> frustFraction, view |-> after]
      \* lines 448-464
      scaled(eyeToOrigin, zDelta, backFraction, frontFraction) ==
        mapped(guardLocals(v, eyeToOrigin, zDelta),
               VAdd(multiplyTransposeVector(viewRot,
                      <<RMul(eyeToOrigin[1], backFraction), RMul(eyeToOrigin[2], backFraction),
                        eyeToOrigin[3]>>),
                    v.camera.eye),
               VScale(viewRot[1], RMul(delta[1], backFraction)),
               VScale(viewRot[2], RMul(delta[2], backFraction)),
               multiplyTransposeVector(viewRot,
                 <<RMul(eyeToOrigin[1], RSub(frontFraction, backFraction)),
                   RMul(eyeToOrigin[2], RSub(frontFraction, backFraction)),
                   zDelta>>),
               RDiv(frontFraction, backFraction))
      \* lines 446-447, zBack being eyeToOrigin.z
      clipped(eyeToOrigin, zFront, zDelta) ==
        scaled(eyeToOrigin, zDelta,
               RDiv(RNeg(eyeToOrigin[3]), v.camera.focusDist),
               RDiv(RNeg(zFront), v.camera.focusDist))
      \* lines 441-442
      near(eyeToOrigin) ==
        clipped(eyeToOrigin, RMul(eyeToOrigin[3], nearScale24),
                RSub(RMul(eyeToOrigin[3], nearScale24), eyeToOrigin[3]))
      \* lines 426-439
      camera(eyeToOrigin) ==
        IF RLt(RDiv(RAdd(eyeToOrigin[3], delta[3]), eyeToOrigin[3]), nearScale24)
          THEN near(<<eyeToOrigin[1], eyeToOrigin[2], limitedBack(eyeToOrigin[3])>>)
          ELSE clipped(eyeToOrigin, RAdd(eyeToOrigin[3], delta[3]), delta[3])
  IN  IF is3d(v) /\ v.cameraOn
        THEN camera(multiplyVector(viewRot, VSub(inOrigin, v.camera.eye)))
        ELSE mapped(v, inOrigin, VScale(viewRot[1], delta[1]), VScale(viewRot[2], delta[2]),
                    VScale(viewRot[3], delta[3]), One)

\* ViewState.computeWorldToNpc with no argument: lines 405, 410 and 411
computeWorldToNpc(v) == computeWorldToNpcOf(v, getRotation(v), getOrigin(v), getExtents(v))

\* The world point of the NPC corner (x, y, z), x, y, z in {0, 1}: the NPC
\* corner through Map4d.transform1 with the perspective division
npcCornerToWorld(map, x, y, z) ==
  VAdd(VAdd(map.origin, VScale(map.wVector, I(z))),
       VScale(VAdd(VScale(map.uVector, I(x)), VScale(map.vVector, I(y))),
              IF z = 1 THEN map.fraction ELSE One))

\* ViewState.calculateFrustum: the optional frustum of the view
calculateFrustum(v) ==
  LET box(m) ==
        Some(<<npcCornerToWorld(m, 0, 0, 0), npcCornerToWorld(m, 1, 0, 0),
               npcCornerToWorld(m, 0, 1, 0), npcCornerToWorld(m, 1, 1, 0),
               npcCornerToWorld(m, 0, 0, 1), npcCornerToWorld(m, 1, 0, 1),
               npcCornerToWorld(m, 0, 1, 1), npcCornerToWorld(m, 1, 1, 1)>>)
      framed(val) == IF val.map = None THEN None ELSE box(val.map[1])
  IN  framed(computeWorldToNpc(v))

(***************************************************************************)
(* ViewState.adjustAspectRatio and ViewState.lookAtViewAlignedVolume, with *)
(* MarginPercent, ViewState3d.centerEyePoint and verifyFocusPlane, and     *)
(* Camera.validateLens of imodeljs-common.                                 *)
(***************************************************************************)
\* ViewState.getAspectRatioSkew: the detail "aspectSkew", 1 when it is absent
getAspectRatioSkew(v) == IF v.aspectSkew = None THEN One ELSE v.aspectSkew[1]

\* ViewState.setAspectRatioSkew: 0 and 1 remove the detail
setAspectRatioSkew(v, val) ==
  [v EXCEPT !.aspectSkew = IF val = Zero \/ val = One THEN None ELSE Some(val)]

\* Fault variant of adjustAspectRatio: the extents are left as they are
adjustAspectRatioSkipped(v, windowAspect) == v

\* ViewState.adjustAspectRatio
adjustAspectRatio(v, windowAspect) ==
  LET \* lines 589-595, trans the rotation about the world origin
      stored(newOrigin, extents) ==
        setExtents(setOrigin(v, multiplyVector(inverse(v.rotation)[1], newOrigin)), extents)
      centred(newOrigin, extents) ==
        stored(<<RAdd(newOrigin[1], RMul(RSub(v.extents[1], extents[1]), Half)),
                 RAdd(newOrigin[2], RMul(RSub(v.extents[2], extents[2]), Half)),
                 newOrigin[3]>>, extents)
      \* lines 577-587
      compared(viewAspect, skewed) ==
        IF RLt(RAbs(RSub(One, RDiv(viewAspect, skewed))), R(1, 1000000000)) THEN v
        ELSE centred(multiplyVector(v.rotation, v.origin),
                     IF RGt(viewAspect, skewed)
                       THEN <<v.extents[1], RDiv(v.extents[1], skewed), v.extents[3]>>
                       ELSE <<RMul(v.extents[2], skewed), v.extents[2], v.extents[3]>>)
  IN  compared(RDiv(v.extents[1], v.extents[2]), RMul(windowAspect, getAspectRatioSkew(v)))

\* The constructor of MarginPercent: each margin clamped to 0 .. 1/4
MarginPercent(left, top, right, bottom) ==
  LET limitMargin(val) == RMax(Zero, RMin(val, R(1, 4)))
  IN  [left |-> limitMargin(left), top |-> limitMargin(top),
       right |-> limitMargin(right), bottom |-> limitMargin(bottom)]

\* Range3d.isNull (geometry-core): low above high on some axis
isNull(volume) == \E i \in 1..3 : RGt(volume.low[i], volume.high[i])

\* Vector3d.magnitudeXY (geometry-core)
magnitudeXY(a) == RSqrt(RAdd(RMul(a[1], a[1]), RMul(a[2], a[2])))

\* Camera.validateLens (imodeljs-common): an angle not between pi / 8 and pi
\* becomes pi / 2; as the tangent of the half angle, tan(pi / 16) taken to
\* eight places
validateLens(lens) == IF RGt(lens, R(19891237, 100000000)) THEN lens ELSE One

\* ViewState3d.centerEyePoint: backDistance optional, 0 read as absent
centerEyePoint(v, backDistance) ==
  LET placed(eyePoint) == setEyePoint(v, VAdd(v.origin, multiplyTransposeVector(v.rotation, eyePoint)))
  IN  placed(<<RMul(v.extents[1], Half), RMul(v.extents[2], Half),
               IF backDistance # None /\ backDistance[1] # Zero
                 THEN backDistance[1] ELSE getBackDistance(v)>>)

\* ViewState3d.verifyFocusPlane
verifyFocusPlane(v) ==
  LET \* lines 1307-1309
      moved(w, backDist) ==
        setOrigin(w, VSub(VSub(VSub(w.camera.eye, VScale(w.rotation[3], backDist)),
                               VScale(w.rotation[1], RMul(w.extents[1], Half))),
                          VScale(w.rotation[2], RMul(w.extents[2], Half))))
      scaled(w, ratio, backDist) ==
        moved(setExtents(w, <<RMul(v.extents[1], ratio), RMul(v.extents[2], ratio),
                              v.extents[3]>>), backDist)
      \* lines 1302-1305
      refocused(w, backDist) ==
        scaled(w, RDiv(w.camera.focusDist, v.camera.focusDist), backDist)
      \* lines 1289-1294
      recentred(backDist) ==
        centerEyePoint(setFocusDistance(v, RMul(backDist, Half)), Some(backDist))
      \* lines 1283-1300
      checked(backDist, frontDist) ==
        IF RLe(backDist, Zero) \/ RLe(frontDist, Zero)
          THEN recentred(RDiv(v.extents[3], v.camera.lens))
        ELSE IF RGt(v.camera.focusDist, frontDist) /\ RLt(v.camera.focusDist, backDist)
          THEN v
        ELSE refocused(setFocusDistance(v, RAdd(RMul(v.extents[3], Half), frontDist)), backDist)
  IN  IF ~v.cameraOn THEN v ELSE checked(getBackDistance(v), getFrontDistance(v))

\* Fault variant of fitCameraOff: no dilation, no margins
fitCameraOffUndilated(newOrigin, newDelta, margin) ==
  [origin |-> newOrigin, delta |-> newDelta, orig |-> newDelta]

\* lookAtViewAlignedVolume with the camera off, lines 853-872: the origin and
\* the delta with the margins or the dilation added, and orig, the delta the
\* origin is later centred against
fitCameraOff(newOrigin, newDelta, margin) ==
  LET spread(m, wPercent, hPercent) ==
        [origin |-> <<RSub(newOrigin[1], RMul(RDiv(m.left, RSub(One, wPercent)), newDelta[1])),
                      RSub(newOrigin[2], RMul(RDiv(m.bottom, RSub(One, hPercent)), newDelta[2])),
                      newOrigin[3]>>,
         delta |-> <<RAdd(newDelta[1], RMul(RDiv(wPercent, RSub(One, wPercent)), newDelta[1])),
                     RAdd(newDelta[2], RMul(RDiv(hPercent, RSub(One, hPercent)), newDelta[2])),
                     newDelta[3]>>]
      kept(r) == [origin |-> r.origin, delta |-> r.delta, orig |-> r.delta]
      margined(m) == kept(spread(m, RAdd(m.left, m.right), RAdd(m.top, m.bottom)))
  IN  IF margin # None THEN margined(margin[1])
      ELSE [origin |-> newOrigin, delta |-> VScale(newDelta, R(104, 100)), orig |-> newDelta]

\* Fault variant of fitMargin: the margins are added with the camera on too
fitMarginCameraBlind(isCameraOn, newOrigin, newDelta, margin) ==
  fitCameraOff(newOrigin, newDelta, margin)

\* lookAtViewAlignedVolume, lines 845-872: with the camera on neither margin
\* nor dilation
fitMargin(isCameraOn, newOrigin, newDelta, margin) ==
  IF isCameraOn THEN [origin |-> newOrigin, delta |-> newDelta, orig |-> newDelta]
  ELSE fitCameraOff(newOrigin, newDelta, margin)

\* ViewState.lookAtViewAlignedVolume on a 3d view: the view after the call
\* and the messages sent; aspect and margin optional, an aspect of 0 read as
\* absent
lookAtViewAlignedVolume(v, volume, aspect, margin) ==
  LET \* lines 894-907
      focused(w, frontDist) ==
        verifyFocusPlane(centerEyePoint(setFocusDistance(w, frontDist),
                                        Some(RAdd(frontDist, w.extents[3]))))
      lensed(w) ==
        focused(w, RDiv(RMax(w.extents[1], w.extents[2]), RMul(I(2), w.camera.lens)))
      \* lines 883-892
      placed(w, fit) ==
        lensed(setLensAngle(
                 setOrigin(w, multiplyTransposeVector(
                                v.rotation,
                                VSub(fit.origin, VScale(VSub(w.extents, fit.orig), Half)))),
                 validateLens(w.camera.lens)))
      \* lines 879-883
      sized(w, fit, messages) ==
        [view |-> placed(IF aspect # None /\ aspect[1] # Zero
                           THEN adjustAspectRatio(w, aspect[1]) ELSE w, fit),
         messages |-> messages]
      validated(r, fit) == sized(setExtents(v, r.delta), fit, r.messages)
      \* line 881
      deepened(fit, delta) ==
        validated(validateViewDelta(v, delta, TRUE), fit)
      \* lines 874-879, diag > newDelta.z compared on the squares, neither
      \* side being negative
      deep(fit) ==
        deepened(fit, IF v.cameraOn /\ RGt(RAdd(RMul(fit.delta[1], fit.delta[1]),
                                                RMul(fit.delta[2], fit.delta[2])),
                                           RMul(fit.delta[3], fit.delta[3]))
                        THEN <<fit.delta[1], fit.delta[2], magnitudeXY(fit.delta)>>
                        ELSE fit.delta)
      \* lines 834-843
      thick(newOrigin, newDelta) ==
        deep(IF RLt(newDelta[3], oneMillimeter)
               THEN fitMargin(v.cameraOn,
                              <<newOrigin[1], newOrigin[2],
                                RSub(newOrigin[3], RMul(RSub(oneMillimeter, newDelta[3]), Half))>>,
                              <<newDelta[1], newDelta[2], oneMillimeter>>, margin)
               ELSE fitMargin(v.cameraOn, newOrigin, newDelta, margin))
  IN  IF isNull(volume) THEN [view |-> v, messages |-> <<>>]
      ELSE thick(volume.low, VSub(volume.high, volume.low))

(***************************************************************************)
(* ViewState3d: moving and rotating the camera, centring the focus plane.  *)
(***************************************************************************)
\* ViewState3d.moveCameraWorld
moveCameraWorld(v, dist) ==
  IF ~v.cameraOn
    THEN [status |-> Success, view |-> [v EXCEPT !.origin = VAdd(v.origin, dist)],
          out |-> <<>>]
  ELSE lookAt(v, VAdd(v.camera.eye, dist), VAdd(getTargetPoint(v), dist),
              v.rotation[2], None, None, None)

\* ViewState3d.rotateCameraWorld; Transform.createFixedPointAndMatrix(about,
\* rotation) takes a point p to about + rotation (p - about)
rotateCameraWorld(v, angle, axis, aboutPt) ==
  LET about == IF aboutPt # None THEN aboutPt[1] ELSE v.camera.eye
      turned(rotation) ==
        lookAt(v, v.camera.eye,
               VAdd(about, multiplyVector(rotation, VSub(getTargetPoint(v), about))),
               multiplyVector(rotation, v.rotation[2]), None, None, None)
      made(rotation) ==
        IF rotation = None
          THEN [status |-> InvalidUpVector, view |-> v, out |-> <<>>]
        ELSE turned(rotation[1])
  IN  made(createRotationAroundVector(axis, angle))

\* Angle.radians of the lens angle whose half has the tangent t, 2 atan(t),
\* which the source compares with 0.0001 and with Math.PI alone: 2t up to
\* t = 1/1000, where it differs from 2 atan(t) by less than 1e-9, and beyond
\* that PI t / (1 + t), which like 2 atan(t) grows with t, is PI / 2 at
\* t = 1 and stays under PI
lensRadians(t) ==
  IF RLe(t, R(1, 1000)) THEN RMul(I(2), t) ELSE RDiv(RMul(PI, t), RAdd(One, t))

\* ViewState3d.getLensAngle
getLensAngle(v) == Angle(lensRadians(v.camera.lens), v.camera.lens)

\* ViewState3d.centerFocusDistance; the status of lookAtUsingLensAngle is
\* not returned to the caller
centerFocusDistance(v) ==
  LET placed(backDist, frontDist, eye) ==
        lookAtUsingLensAngle(v, eye,
                             VAdd(eye, VScale(v.rotation[3], RSub(frontDist, backDist))),
                             v.rotation[2], getLensAngle(v), Some(frontDist), Some(backDist))
  IN  placed(getBackDistance(v), getFrontDistance(v), v.camera.eye)

(***************************************************************************)
(* ViewState3dUndo / ViewState2dUndo.  A field of a snapshot is an object  *)
(* of its own holding a value, <<value>>, or the object of the view it was *)
(* taken from, <<>>, which holds whatever the view holds now.              *)
(***************************************************************************)
\* Fault variant of clone: the snapshot keeps the object of the view
cloneShared(x) == None

\* Point3d.clone / Vector3d.clone / Matrix3d.clone / Camera.clone, and
\* Point2d.clone / Angle.clone: a new object with the value of x
clone(x) == Some(x)

\* The value a field of a snapshot holds while the view holds current
Held(field, current) == IF field = None THEN current ELSE field[1]

\* The constructors of ViewState3dUndo and ViewState2dUndo
saveForUndo(v) ==
  IF is3d(v)
    THEN [cameraOn |-> v.cameraOn, origin |-> clone(v.origin), extents |-> clone(v.extents),
          rotation |-> clone(v.rotation), camera |-> clone(v.camera)]
  ELSE [origin |-> clone(v.origin), delta |-> clone(v.delta), angle |-> clone(v.angle)]

\* Fault variant of setFromUndo: the camera flag is not restored
setFromUndoCameraKept(v, val) ==
  IF is3d(v)
    THEN [v EXCEPT !.origin = Held(val.origin, @), !.extents = Held(val.extents, @),
                   !.rotation = Held(val.rotation, @), !.camera = Held(val.camera, @)]
  ELSE [v EXCEPT !.origin = Held(val.origin, @), !.delta = Held(val.delta, @),
                 !.angle = Held(val.angle, @)]

\* ViewState3d.setFromUndo and ViewState2d.setFromUndo
setFromUndo(v, val) ==
  IF is3d(v)
    THEN [v EXCEPT !.cameraOn = val.cameraOn,
                   !.origin = Held(val.origin, @), !.extents = Held(val.extents, @),
                   !.rotation = Held(val.rotation, @), !.camera = Held(val.camera, @)]
  ELSE [v EXCEPT !.origin = Held(val.origin, @), !.delta = Held(val.delta, @),
                 !.angle = Held(val.angle, @)]

\* Camera.equals: the same lens angle, focus distance and eye
cameraEquals(a, b) == a.lens = b.lens /\ a.focusDist = b.focusDist /\ a.eye = b.eye

\* ViewState3dUndo.equalState and ViewState2dUndo.equalState
equalState(val, v) ==
  IF is3d(v)
    THEN /\ val.cameraOn = v.cameraOn
         /\ isAlmostEqual(Held(val.origin, v.origin), v.origin)
         /\ isAlmostEqual(Held(val.extents, v.extents), v.extents)
         /\ isAlmostEqualMatrix(Held(val.rotation, v.rotation), v.rotation)
         /\ (~val.cameraOn \/ cameraEquals(Held(val.camera, v.camera), v.camera))
  ELSE /\ isAlmostEqual(Held(val.origin, v.origin), v.origin)
       /\ isAlmostEqual(Held(val.delta, v.delta), v.delta)
       /\ isAlmostEqual(<<Held(val.angle, v.angle).radians>>, <<v.angle.radians>>)

(***************************************************************************)
(* The views the model starts from and the arguments of the operations.    *)
(***************************************************************************)
\* A rigid rotation about z with rational entries (cos = 3/5, sin = 4/5)
Rot345 == <<<<R(3, 5), R(4, 5), Zero>>, <<R(-4, 5), R(3, 5), Zero>>, V(0, 0, 1)>>

\* A matrix that is not orthonormal: unit rows, the first two not perpendicular
SkewMatrix == <<<<R(3, 5), R(4, 5), Zero>>, V(0, 1, 0), V(0, 0, 1)>>

\* An explicit override of the extent limits, as set through the setter
OverrideLimits == [min |-> I(1), max |-> I(10)]

\* A view as constructed from props: a 10 x 10 x 10 box at the world origin
\* seen along the rotation's z axis, the camera centred 20 behind the back
\* plane's origin with the focus plane in the middle of the box.
MakeView(kind, cameraOn, limits, rotation) ==
  [kind |-> kind, cameraOn |-> cameraOn,
   origin |-> VZero, extents |-> V(10, 10, 10), rotation |-> rotation,
   camera |-> [eye |-> multiplyTransposeVector(rotation, V(5, 5, 20)),
               focusDist |-> I(15), lens |-> R(1, 3)],
   forceMinFrontDist |-> Zero, limits |-> limits, aspectSkew |-> None]

InitViews ==
  {MakeView(Spatial, c, p[1], p[2]) :
     c \in BOOLEAN, p \in {<<None, Identity>>, <<Some(OverrideLimits), Rot345>>}}
  \cup
  {MakeView(Orthographic, FALSE, Some(OverrideLimits), Identity),
   MakeView(Orthographic, TRUE, None, Rot345)}

\* Views with the camera on whose front plane is nearer than nearScale24 of
\* the back distance: a back plane 20 km and one 2 km from the eye, and an
\* eye inside the view volume
DeepViews ==
  {[MakeView(Spatial, TRUE, None, Identity) EXCEPT
      !.extents = <<I(10), I(10), d[2]>>, !.camera.eye = <<I(5), I(5), d[1]>>] :
     d \in {<<I(20000), I(19999)>>, <<I(2000), R(3999, 2)>>, <<I(5), I(10)>>}}

\* Views of a drawing model 10 x 5 turned by 2 atan(1/2), before the tile
\* tree of the model is available and after, the range of the tree being
\* 30 x 20 x 0 or 6 x 7 x 0
DrawingViews ==
  {[kind |-> Drawing, origin |-> <<I(1), I(2)>>, delta |-> <<I(10), I(5)>>,
    angle |-> [radians |-> R(92729522, 100000000), tanHalf |-> Half],
    limits |-> None, modelLimits |-> None, tree |-> t] :
     t \in {None, Some([low |-> VZero, high |-> V(30, 20, 0)]),
            Some([low |-> V(1, 1, 0), high |-> V(7, 8, 0)])}}

EyeTargetPairs ==
  { <<V(0, 0, 20), VZero>>, <<V(6, 8, 0), VZero>>, <<VZero, VZero>>,
    <<<<Zero, Zero, R(19, 125)>>, VZero>> }

UpVectors == {V(0, 1, 0), V(0, 0, 1), V(0, 0, 0)}

ExtentArgs == {None, Some(<<I(20), I(-10)>>), Some(<<R(1, 2000), I(1)>>)}

LookAtArg(p, u, e, f, b) ==
  [eye |-> p[1], target |-> p[2], up |-> u, newExtents |-> e, front |-> f, back |-> b]

\* Every eye/target pair with every up vector; the two well-formed pairs with
\* every extent, with and without explicit distances; a view far deeper than
\* it is wide along a skew axis, along a world axis, and along an axis whose
\* x component is 1/1059 of its length; and a rectangle inside the override
\* limits whose front-plane image is below them
LookAtArgs ==
  {LookAtArg(p, u, None, None, None) : p \in EyeTargetPairs, u \in UpVectors}
  \cup
  {LookAtArg(p, IF p[1] = V(0, 0, 20) THEN V(0, 1, 0) ELSE V(0, 0, 1), e, d[1], d[2]) :
     p \in {<<V(0, 0, 20), VZero>>, <<V(6, 8, 0), VZero>>}, e \in ExtentArgs,
     d \in {<<None, None>>, <<Some(I(4)), Some(I(30))>>}}
  \cup
  {LookAtArg(<<V(6, 8, 0), VZero>>, V(0, 0, 1), Some(<<R(1, 100), R(1, 100)>>),
             Some(I(4)), Some(I(2000))),
   LookAtArg(<<V(0, 0, 20), VZero>>, V(0, 1, 0), Some(<<R(1, 100), R(1, 100)>>),
             Some(I(4)), Some(I(2000000))),
   LookAtArg(<<V(1, 46, 1058), VZero>>, V(-46, -22, 1), Some(<<R(11, 10000), R(11, 10000)>>),
             Some(I(1000)), Some(I(114000))),
   LookAtArg(<<V(0, 0, 20), VZero>>, V(0, 1, 0), Some(<<I(4), I(4)>>),
             Some(I(4)), Some(I(30)))}

\* A frustum spanned from a corner by three edge vectors, its front face
\* scaled by f about the front corner
BoxFrustum(org, x, y, z, f) ==
  LET c(i, j, k) == VAdd(VAdd(org, VScale(z, I(k))),
                         VScale(VAdd(VScale(x, I(i)), VScale(y, I(j))), IF k = 1 THEN f ELSE One))
  IN  <<c(0, 0, 0), c(1, 0, 0), c(0, 1, 0), c(1, 1, 0), c(0, 0, 1), c(1, 0, 1), c(0, 1, 1), c(1, 1, 1)>>

FrustumArgs ==
  { BoxFrustum(b[1], b[2], b[3], b[4], b[5]) :
      b \in { <<V(1, 2, 3), V(4, 0, 0), V(0, 2, 0), V(0, 0, 8), One>>,
              <<V(1, 2, 3), V(4, 0, 0), V(0, 2, 0), V(0, 0, 8), Half>>,
              <<V(1, 2, 3), V(4, 0, 0), V(0, 2, 0), V(0, 0, 8), I(2)>>,
              <<V(1, 2, 3), V(4, 0, 0), V(0, 2, 0), V(0, 0, -8), One>>,
              <<V(1, 2, 3), V(4, 0, 0), V(8, 0, 0), V(0, 0, 8), One>>,
              <<V(1, 2, 3), V(0, 0, 0), V(0, 2, 0), V(0, 0, 8), One>>,
              <<VZero, V(3, 4, 0), V(-4, 3, 0), V(0, 0, 8), Half>>,
              <<VZero, V(12, 0, 0), V(0, 2, 0), V(0, 0, 8), One>>,
              <<VZero, V(1, 0, 0), V(0, 1, 0), V(0, 0, 1), R(1000001, 1000000)>>,
              <<VZero, V(1, 0, 0), V(0, 1, 0), V(0, 0, 1), R(1000002, 1000000)>>,
              <<VZero, V(1, 0, 0), V(0, 1, 0), V(0, 0, 1), R(999999, 1000000)>> } }
  \cup
  \* a twisted frustum: mirrored at the left back corner, and with its left
  \* and right corners swapped still left-handed at the new one
  { <<V(0, 0, 0), V(1, 0, 0), V(0, 1, 0), V(1, 1, 0),
      V(0, 0, -1), V(1, 0, 1), V(0, 1, -1), V(1, 1, 1)>> }

RotationArgs == {Identity, Rot345, SkewMatrix}

DeltaValues == {R(1, 2000), I(5), I(20000000)}

\* The arguments of lookAtViewAlignedVolume: a volume in view coordinates
\* from low to high, the optional aspect and the optional margin
FitArg(low, high, aspect, margin) ==
  [volume |-> [low |-> low, high |-> high], aspect |-> aspect, margin |-> margin]

\* No margin, a tenth on every side, and margins the constructor clamps to a
\* quarter on the left and at the bottom and nothing on the right and at the top
MarginArgs ==
  { None,
    Some(MarginPercent(R(1, 10), R(1, 10), R(1, 10), R(1, 10))),
    Some(MarginPercent(Half, Zero, I(-1), R(1, 4))) }

\* Volumes 3 x 4 x 1, 6 x 8 x 0, 3 x 4 x 20 and 3/10000 x 4/10000 x 1, whose
\* diagonal in x and y is rational, and a null volume; with the camera off
\* also the volume 100 x 50 x 10, whose diagonal is not rational
FitArgs(isCameraOn) ==
  {FitArg(V(1, 2, 3), V(4, 6, 4), a, m) : a \in {None, Some(I(2)), Some(R(3, 4))},
                                           m \in MarginArgs}
  \cup
  { FitArg(VZero, V(6, 8, 0), Some(Zero), None),
    FitArg(VZero, V(3, 4, 20), Some(I(2)), Some(MarginPercent(R(1, 10), R(1, 10), R(1, 10), R(1, 10)))),
    FitArg(VZero, <<R(3, 10000), R(4, 10000), One>>, None, None),
    FitArg(V(1, 0, 0), V(0, 1, 1), Some(I(2)), None) }
  \cup
  (IF isCameraOn THEN {}
   ELSE { FitArg(VZero, V(100, 50, 10), Some(I(2)), None),
          FitArg(VZero, V(100, 50, 10), Some(R(3, 4)), None) })

\* Window aspects that differ from 1 by a relative 1e-9 and by 5e-10, applied
\* to the views 10 x 10 without skew and without rotation as the last call
\* of a behaviour: the extents they leave take a further call past 32 bits
NearAspectArgs == {R(1000000000, 1000000001), R(2000000000, 2000000001)}

\* Extent limits assigned through the setter: the override some views start
\* with, and limits no view starts with
WideLimits == [min |-> R(1, 100), max |-> I(50)]

LimitsArgs == {OverrideLimits, WideLimits}

\* Field-of-view angles: 0, -1, 0.0001, 2 atan(1/2), pi / 2, 2 atan(1000)
\* (0.002 under pi), pi and 4, each with the tangent of its half.
\* Math.tan(Math.PI / 2) is 1.6e16 in double precision; it is kept as 5e7,
\* which like it makes the rectangle on the front plane, at 0.5 or more from
\* the eye, wider than the diameter of the earth.
FovArgs ==
  { Angle(Zero, Zero),
    Angle(I(-1), R(-5463, 10000)),
    Angle(R(1, 10000), R(1, 20000)),
    Angle(R(92729522, 100000000), Half),
    Angle(R(157079633, 100000000), One),
    Angle(R(313959265, 100000000), I(1000)),
    Angle(PI, I(50000000)),
    Angle(I(4), R(-437, 200)) }

\* Each angle from an eye 20 in front of the target along z with the default
\* distances, and from an eye 10 away along a skew axis with explicit ones; a
\* right angle with the eye on the target and with an up vector along the axis
LensArg(p, u, fov, f, b) ==
  [eye |-> p[1], target |-> p[2], up |-> u, fov |-> fov, front |-> f, back |-> b]

LensArgs ==
  {LensArg(<<V(0, 0, 20), VZero>>, V(0, 1, 0), a, None, None) : a \in FovArgs}
  \cup
  {LensArg(<<V(6, 8, 0), VZero>>, V(0, 0, 1), a, Some(I(4)), Some(I(30))) : a \in FovArgs}
  \cup
  {LensArg(<<VZero, VZero>>, V(0, 1, 0), Angle(R(157079633, 100000000), One), None, None),
   LensArg(<<V(0, 0, 20), VZero>>, V(0, 0, 1), Angle(R(157079633, 100000000), One), None, None)}

\* A minimum front distance equal to one of the eye-to-target distances of
\* EyeTargetPairs and between the other two
ForceMinFrontDistArgs == {I(10)}

(***************************************************************************)
(* The state machine: one view, the record of the last call, and the       *)
(* number of calls made.                                                   *)
(***************************************************************************)
Init ==
  /\ view \in InitViews
  /\ last = [op |-> "new", status |-> Success, pre |-> view, args |-> <<>>, out |-> <<>>,
             messages |-> <<>>, frustum |-> <<>>]
  /\ ops = 0
  /\ undo = None

\* The messages a call sent to IModelApp.notifications; the results of the
\* methods that call neither validateViewDelta nor showFrustumErrorMessage
\* with a message asked for carry none
Messages(r) == IF "messages" \in DOMAIN r THEN r.messages ELSE <<>>

\* The frustum a call was given as it is after the call; none for the
\* methods that take no frustum
FrustumAfter(r) == IF "frustum" \in DOMAIN r THEN r.frustum ELSE <<>>

\* A call with arguments args that returned r.status and r.out, sent the
\* messages of r and left the view r.view
Call(op, args, r) ==
  /\ ops < MaxOps
  /\ ops' = ops + 1
  /\ view' = r.view
  /\ last' = [op |-> op, status |-> r.status, pre |-> view, args |-> args, out |-> r.out,
              messages |-> Messages(r), frustum |-> FrustumAfter(r)]
  /\ undo' = undo

\* out: the front and back distances lookAt settled on
LookAt ==
  /\ ops < MaxOps
  /\ \E a \in LookAtArgs :
       \E r \in {lookAt(view, a.eye, a.target, a.up, a.newExtents, a.front, a.back)} :
         Call("lookAt", a, r)

\* out: the status of the base solver
SetupFromFrustum ==
  /\ ops < MaxOps
  /\ \E f \in FrustumArgs :
       \E r \in {setupFromFrustum3d(view, f)} : Call("setupFromFrustum", f, r)

\* setupFromFrustum(calculateFrustum()), as the view tools call it
RoundTrip ==
  \E f \in {calculateFrustum(view)} :
    /\ f # None
    /\ ops < MaxOps
    /\ \E r \in {setupFromFrustum3d(view, f[1])} : Call("roundTrip", f[1], r)

SetRotation ==
  \E m \in RotationArgs :
    Call("setRotation", m, [status |-> Success, view |-> setRotation(view, m), out |-> <<>>])

SetForceMinFrontDist ==
  \E d \in ForceMinFrontDistArgs :
    Call("setForceMinFrontDist", d,
         [status |-> Success, view |-> setForceMinFrontDist(view, d), out |-> <<>>])

\* out: the front and back distances lookAt settled on
LookAtUsingLensAngle ==
  /\ ops < MaxOps
  /\ \E a \in LensArgs :
       \E r \in {lookAtUsingLensAngle(view, a.eye, a.target, a.up, a.fov, a.front, a.back)} :
         Call("lookAtUsingLensAngle", a, r)

SetExtentLimits ==
  \E l \in LimitsArgs :
    Call("setExtentLimits", l,
         [status |-> Success, view |-> setExtentLimits(view, l), out |-> <<>>])

ResetExtentLimits ==
  Call("resetExtentLimits", <<>>,
       [status |-> Success, view |-> resetExtentLimits(view), out |-> <<>>])

\* out: the delta as it leaves the call
ValidateViewDelta ==
  \E x \in DeltaValues, y \in DeltaValues, z \in DeltaValues, messageNeeded \in BOOLEAN :
    \E r \in {validateViewDelta(view, <<x, y, z>>, messageNeeded)} :
      Call("validateViewDelta", <<x, y, z>>,
           [status |-> r.status, view |-> view, out |-> r.delta, messages |-> r.messages])

SetAspectRatioSkew ==
  \E val \in {Zero, One, I(2)} :
    Call("setAspectRatioSkew", val,
         [status |-> Success, view |-> setAspectRatioSkew(view, val), out |-> <<>>])

AdjustAspectRatio ==
  \E windowAspect \in {I(2), Half, One} \cup
        (IF /\ ops = MaxOps - 1
            /\ view.aspectSkew = None
            /\ view.extents[1] = I(10) /\ view.extents[2] = I(10)
            /\ view.rotation = Identity
           THEN NearAspectArgs ELSE {}) :
    Call("adjustAspectRatio", windowAspect,
         [status |-> Success, view |-> adjustAspectRatio(view, windowAspect), out |-> <<>>])

LookAtViewAlignedVolume ==
  /\ ops < MaxOps
  /\ \E a \in FitArgs(view.cameraOn) :
       \E r \in {lookAtViewAlignedVolume(view, a.volume, a.aspect, a.margin)} :
         Call("lookAtViewAlignedVolume", a,
              [status |-> Success, view |-> r.view, out |-> <<>>, messages |-> r.messages])

\* A view whose numbers are short: the origin, the extents, the eye, the
\* focus distance and the lens of a 3D view are fractions of at most 1000
\* over at most 100.  The first two calls of a behaviour are made on every
\* view; a call after them that moves, turns or refocuses the camera or maps
\* the view is made on these views, the products the others lead to being
\* past 32 bits.
Plain(v) ==
  is3d(v) =>
    /\ \A i \in 1..3 : \A p \in {v.origin[i], v.extents[i], v.camera.eye[i]} :
         p[2] <= 100 /\ Abs(p[1]) <= 1000
    /\ v.camera.focusDist[2] <= 100 /\ v.camera.focusDist[1] <= 1000
    /\ v.camera.lens[2] <= 100 /\ v.camera.lens[1] <= 1000

\* A move by 3 along the z axis of the view, which keeps the distance from
\* the eye to the centre of the view rational, and by nothing
MoveCameraWorld ==
  /\ ops >= 2 => Plain(view)
  /\ is3d(view)
  /\ ops < MaxOps
  /\ \E dist \in {VScale(view.rotation[3], I(3)), V(0, 0, 0)} :
       \E r \in {moveCameraWorld(view, dist)} : Call("moveCameraWorld", dist, r)

\* A rotation by 2 atan(1/2) about the world's z and y axes and about no
\* axis, in place and about a point given, which is the eye point.  The
\* views turned are those whose eye is on the line through the target point
\* along the view's z axis, where lookAt and the constructor put it and
\* which keeps the lengths taken rational; they are less than a kilometre
\* deep and their origin and eye are multiples of a millimetre, the squared
\* lengths of the others turned being past 32 bits.
RotateCameraWorld ==
  /\ ops >= 2 => Plain(view)
  /\ is3d(view)
  /\ RLt(view.extents[3], oneKilometer)
  /\ \A i \in 1..3 : view.origin[i][2] <= 1000 /\ view.camera.eye[i][2] <= 1000
  /\ crossProduct(VSub(view.camera.eye, getTargetPoint(view)), view.rotation[3]) = VZero
  /\ ops < MaxOps
  /\ \E axis \in {V(0, 0, 1), V(0, 1, 0), V(0, 0, 0)},
        aboutPt \in {None, Some(view.camera.eye)} :
       \E r \in {rotateCameraWorld(view, Angle(R(92729522, 100000000), Half), axis, aboutPt)} :
         Call("rotateCameraWorld", [axis |-> axis, aboutPt |-> aboutPt], r)

\* status: the status of lookAtUsingLensAngle, which the method drops
CenterFocusDistance ==
  /\ ops >= 2 => Plain(view)
  /\ is3d(view)
  /\ ops < MaxOps
  /\ \E r \in {centerFocusDistance(view)} : Call("centerFocusDistance", <<>>, r)

VerifyFocusPlane ==
  /\ ops >= 2 => Plain(view)
  /\ is3d(view)
  /\ Call("verifyFocusPlane", <<>>,
          [status |-> Success, view |-> verifyFocusPlane(view), out |-> <<>>])

SetFocusDistance ==
  /\ is3d(view)
  /\ \E dist \in {I(5), I(25)} :
       Call("setFocusDistance", dist,
            [status |-> Success, view |-> setFocusDistance(view, dist), out |-> <<>>])

\* The origin of a 3D view moved by 3 along its z axis, that of a drawing
\* view set to (4, 6)
SetOrigin ==
  \E origin \in {IF is3d(view) THEN VAdd(view.origin, VScale(view.rotation[3], I(3)))
                                ELSE V(4, 6, 0)} :
    Call("setOrigin", origin, [status |-> Success, view |-> setOrigin(view, origin), out |-> <<>>])

\* out: the mapping and the fraction returned
ComputeWorldToNpc ==
  /\ ops >= 2 => Plain(view)
  /\ \E r \in {computeWorldToNpc(view)} :
       Call("computeWorldToNpc", <<>>,
            [status |-> Success, view |-> r.view,
             out |-> [map |-> r.map, frustFraction |-> r.frustFraction]])

\* out: the optional frustum returned
CalculateFrustum ==
  /\ ops >= 2 => Plain(view)
  /\ \E val \in {computeWorldToNpc(view)} :
       Call("calculateFrustum", <<>>,
            [status |-> Success, view |-> val.view, out |-> calculateFrustum(view)])

\* undo: the snapshot, and next to it the view it was taken of.  Taking a
\* snapshot is not counted as a call: it leaves the view alone, and the
\* calls that follow it are the ones bounded.
SaveForUndo ==
  /\ ops < MaxOps
  /\ ops' = ops
  /\ undo' = Some([val |-> saveForUndo(view), saved |-> view])
  /\ last' = [op |-> "saveForUndo", status |-> Success, pre |-> view, args |-> <<>>,
              out |-> <<>>, messages |-> <<>>, frustum |-> <<>>]
  /\ view' = view

SetFromUndo ==
  /\ undo # None
  /\ Call("setFromUndo", undo[1].val,
          [status |-> Success, view |-> setFromUndo(view, undo[1].val), out |-> <<>>])

\* The tile tree of the viewed model becomes available, or is replaced by
\* one with another range: 30 x 20, 100 x 40 and 8 x 50
TileTreeLoaded ==
  /\ ~is3d(view)
  /\ \E high \in {V(30, 20, 0), V(100, 40, 0), V(8, 50, 0)} :
       Call("tileTreeLoaded", high,
            [status |-> Success,
             view |-> [view EXCEPT !.tree = Some([low |-> VZero, high |-> high])],
             out |-> <<>>])

\* out: the limits the getter returns; it may fill the cache of the view
ReadExtentLimits ==
  /\ ~is3d(view)
  /\ \E r \in {extentLimitsDrawing(view)} :
       Call("extentLimits", <<>>, [status |-> Success, view |-> r.view, out |-> r.limits])

Next ==
  \/ LookAt
  \/ SetupFromFrustum
  \/ RoundTrip
  \/ SetRotation
  \/ SetForceMinFrontDist

Spec == Init /\ [][Next]_vars

\* The pure function validateViewDelta applied to every delta of DeltaValues
\* under each of the initial views' extent limits
NextValidate == ValidateViewDelta

SpecValidate == Init /\ [][NextValidate]_vars

\* The extent limits assigned and reset between calls that position the
\* camera by lens angle and solve a frustum
NextLimits ==
  \/ SetExtentLimits
  \/ ResetExtentLimits
  \/ LookAtUsingLensAngle
  \/ SetupFromFrustum

SpecLimits == Init /\ [][NextLimits]_vars

\* Volumes fitted and the aspect ratio adjusted under an aspect ratio skew
NextFit ==
  \/ SetAspectRatioSkew
  \/ AdjustAspectRatio
  \/ LookAtViewAlignedVolume

SpecFit == Init /\ [][NextFit]_vars

\* The camera moved, turned and refocused, the mapping to NPC computed and
\* snapshots taken and restored, on 3D views and on views of a drawing
InitCamera ==
  /\ view \in InitViews \cup DeepViews \cup DrawingViews
  /\ last = [op |-> "new", status |-> Success, pre |-> view, args |-> <<>>, out |-> <<>>,
             messages |-> <<>>, frustum |-> <<>>]
  /\ ops = 0
  /\ undo = None

NextCamera ==
  \/ MoveCameraWorld
  \/ RotateCameraWorld
  \/ CenterFocusDistance
  \/ VerifyFocusPlane
  \/ SetFocusDistance
  \/ SetOrigin
  \/ ComputeWorldToNpc
  \/ CalculateFrustum
  \/ SaveForUndo
  \/ SetFromUndo

SpecCamera == InitCamera /\ [][NextCamera]_vars

\* Orthographic views created with the camera off, under every method that
\* positions the camera or solves the view, and their snapshots restored
InitOrthographic ==
  /\ view \in {MakeView(Orthographic, FALSE, Some(OverrideLimits), Identity),
               MakeView(Orthographic, FALSE, None, Rot345)}
  /\ last = [op |-> "new", status |-> Success, pre |-> view, args |-> <<>>, out |-> <<>>,
             messages |-> <<>>, frustum |-> <<>>]
  /\ ops = 0
  /\ undo = None

NextOrthographic ==
  \/ LookAt
  \/ LookAtUsingLensAngle
  \/ SetupFromFrustum
  \/ MoveCameraWorld
  \/ RotateCameraWorld
  \/ LookAtViewAlignedVolume
  \/ SaveForUndo
  \/ SetFromUndo

SpecOrthographic == InitOrthographic /\ [][NextOrthographic]_vars

\* The extent limits of a drawing view read, set and reset while the tile
\* tree of its model is loaded and replaced
InitDrawing ==
  /\ view \in DrawingViews
  /\ last = [op |-> "new", status |-> Success, pre |-> view, args |-> <<>>, out |-> <<>>,
             messages |-> <<>>, frustum |-> <<>>]
  /\ ops = 0
  /\ undo = None

NextDrawing ==
  \/ TileTreeLoaded
  \/ ReadExtentLimits
  \/ SetExtentLimits
  \/ ResetExtentLimits
  \/ SetOrigin

SpecDrawing == InitDrawing /\ [][NextDrawing]_vars

(***************************************************************************)
(* Properties.  last.pre is the view before the last call, view the view   *)
(* after it.                                                               *)
(***************************************************************************)
\* Origin, extents, rotation, the camera's eye point, focus distance and
\* lens angle, and the camera flag agree
SameViewParameters(a, b) ==
  /\ a.origin = b.origin
  /\ a.extents = b.extents
  /\ a.rotation = b.rotation
  /\ a.camera.eye = b.camera.eye
  /\ a.camera.focusDist = b.camera.focusDist
  /\ a.camera.lens = b.camera.lens
  /\ a.cameraOn = b.cameraOn

\* Rows of unit length, mutually orthogonal, |det| = 1
IsOrthonormal(m) ==
  /\ \A i, j \in 1..3 : dotProduct(m[i], m[j]) = IF i = j THEN One ELSE Zero
  /\ RAbs(determinant(m)) = One

\* The distance LeftBottomFront-RightBottomFront is greater than the distance
\* LeftBottomRear-RightBottomRear times (1 + 1e-6)
FrontWiderThanBack(f) ==
  LET xBack == distance(f[1], f[2])
      xFront == distance(f[5], f[6])
  IN  IF xBack = Zero THEN RGt(xFront, Zero)
      ELSE RGt(RDiv(xFront, xBack), R(1000001, 1000000))

\* x clamped to [lim.min, lim.max]
Clamp(lim, x) ==
  IF RLt(x, lim.min) THEN lim.min ELSE IF RGt(x, lim.max) THEN lim.max ELSE x

InLimits(lim, x) == RLe(lim.min, x) /\ RLe(x, lim.max)

IsZeroVector(a) == a = VZero

\* C1: whenever lookAt returns a status other than Success, the view's
\* origin, extents, rotation, eye point, focus distance, lens angle and
\* camera flag are what they were before the call.
C1_LookAtFailureLeavesView ==
  (last.op = "lookAt" /\ last.status # Success) => SameViewParameters(view, last.pre)

\* A lookAt that passed every earlier test and failed the last one, on a
\* view whose eye point differs from the one asked for
C1_Witness ==
  /\ last.op = "lookAt"
  /\ last.status = MaxDisplayDepth
  /\ last.pre.camera.eye # last.args.eye

\* C2: when ViewState3d.setupFromFrustum rejects a frustum the base solver
\* accepted, because its front is wider than its back by more than the 1e-6
\* fraction, the view's parameters are what they were before the call.
C2_RejectedFrustumLeavesView ==
  (/\ last.op = "setupFromFrustum"
   /\ last.out = Success
   /\ FrontWiderThanBack(last.args)
   /\ last.status = InvalidWindow) => SameViewParameters(view, last.pre)

\* C3: for a frustum that passes the base solver, ViewState3d.setupFromFrustum
\* returns InvalidWindow exactly when the front is wider than the back by more
\* than the 1e-6 fraction, and Success otherwise.
C3_InvalidWindowIffFrontWider ==
  (last.op = "setupFromFrustum" /\ last.out = Success) =>
    /\ last.status \in {Success, InvalidWindow}
    /\ (last.status = InvalidWindow) <=> FrontWiderThanBack(last.args)

\* A frustum the base solver accepts whose front is wider than its back by
\* two parts in a million, rejected
C3_Witness ==
  /\ last.op = "setupFromFrustum"
  /\ last.out = Success
  /\ distance(last.args[5], last.args[6]) = RMul(R(1000002, 1000000), distance(last.args[1], last.args[2]))
  /\ last.status = InvalidWindow

\* C5 as stated: in every reachable state the stored rotation is orthonormal,
\* whatever the arguments of setRotation, lookAt and setupFromFrustum were.
C5_RotationAlwaysOrthonormal == IsOrthonormal(view.rotation)

\* C5 amended: a call on a view whose rotation is orthonormal leaves it
\* orthonormal, provided the argument of setRotation is orthonormal.
C5_OrthonormalPreserved ==
  (/\ IsOrthonormal(last.pre.rotation)
   /\ (last.op = "setRotation" => IsOrthonormal(last.args))) => IsOrthonormal(view.rotation)

\* A successful lookAt that replaced an orthonormal rotation by another one
C5_Witness ==
  /\ last.op = "lookAt"
  /\ last.status = Success
  /\ IsOrthonormal(last.pre.rotation)
  /\ view.rotation # last.pre.rotation

\* C6: in every reachable state every stored extents component lies within
\* [extentLimits.min, extentLimits.max].
C6_ExtentsWithinLimits ==
  \A i \in 1..3 : InLimits(extentLimits(view), view.extents[i])

\* C7: validateViewDelta replaces each component by its value clamped to the
\* extent limits; the status is MinWindow or MaxWindow for y out of range,
\* otherwise MinWindow or MaxWindow for x out of range, otherwise Success.
C7_ValidateViewDeltaClamps ==
  last.op = "validateViewDelta" =>
    LET lim == extentLimits(last.pre)
        d == last.args
    IN  /\ last.out = <<Clamp(lim, d[1]), Clamp(lim, d[2]), Clamp(lim, d[3])>>
        /\ last.status = IF RLt(d[2], lim.min) THEN MinWindow
                         ELSE IF RGt(d[2], lim.max) THEN MaxWindow
                         ELSE IF RLt(d[1], lim.min) THEN MinWindow
                         ELSE IF RGt(d[1], lim.max) THEN MaxWindow
                         ELSE Success

\* x below the minimum, y in range and z above the maximum: MinWindow, and z
\* clamped without a status of its own
C7_Witness ==
  LET lim == extentLimits(last.pre)
  IN  /\ last.op = "validateViewDelta"
      /\ RLt(last.args[1], lim.min)
      /\ InLimits(lim, last.args[2])
      /\ RGt(last.args[3], lim.max)
      /\ last.status = MinWindow
      /\ last.out[3] = lim.max

\* C8 as stated: whenever lookAt returns Success the camera is on, for every
\* kind of view.
C8_LookAtSuccessCameraOn ==
  (last.op = "lookAt" /\ last.status = Success) => view.cameraOn

\* C8 amended: whenever lookAt returns Success the camera is on if the view
\* supports a camera, and the camera flag is what it was if it does not.
C8_LookAtSuccessCameraOnIfSupported ==
  (last.op = "lookAt" /\ last.status = Success) =>
    view.cameraOn = IF last.pre.kind = Orthographic THEN last.pre.cameraOn ELSE TRUE

\* A successful lookAt on an orthographic view whose camera was off
C8_Witness ==
  /\ last.op = "lookAt"
  /\ last.status = Success
  /\ last.pre.kind = Orthographic
  /\ ~last.pre.cameraOn

\* C9: after lookAt returns Success on a camera-capable view the eye point is
\* the eye given, the focus distance is the distance from eye to target, the
\* target point is the target given, the origin is
\* eye - backDistance Z - (extents.x / 2) X - (extents.y / 2) Y, and the back
\* distance is the one lookAt settled on.
C9_LookAtPlacesCamera ==
  (last.op = "lookAt" /\ last.status = Success /\ last.pre.kind # Orthographic) =>
    LET a == last.args
        X == view.rotation[1]
        Y == view.rotation[2]
        Z == view.rotation[3]
    IN  /\ view.camera.eye = a.eye
        /\ view.camera.focusDist = distance(a.eye, a.target)
        /\ getTargetPoint(view) = a.target
        /\ view.origin = VSub(VSub(VSub(a.eye, VScale(Z, last.out.backDistance)),
                                   VScale(X, RMul(view.extents[1], Half))),
                              VScale(Y, RMul(view.extents[2], Half)))
        /\ getBackDistance(view) = last.out.backDistance

\* A successful lookAt along a skew axis with new extents and explicit
\* distances on a spatial view whose camera was off
C9_Witness ==
  /\ last.op = "lookAt"
  /\ last.status = Success
  /\ last.pre.kind = Spatial
  /\ ~last.pre.cameraOn
  /\ last.args.eye = V(6, 8, 0)
  /\ last.args.newExtents # None
  /\ last.args.back = Some(I(30))
  /\ last.out.backDistance = I(30)

\* C10: lookAt returns InvalidUpVector whenever the up vector has zero length,
\* and whenever it is parallel to the eye-to-target axis and eye and target
\* are farther apart than minimumFrontDistance(); the view is unchanged.
C10_InvalidUpVector ==
  LET a == last.args
      parallel == IsZeroVector(crossProduct(a.up, VSub(a.eye, a.target)))
      apart == RGt(distance(a.eye, a.target), minimumFrontDistance(last.pre))
  IN  (last.op = "lookAt" /\ (IsZeroVector(a.up) \/ (parallel /\ apart))) =>
        /\ last.status = InvalidUpVector
        /\ SameViewParameters(view, last.pre)

\* A zero up vector with the eye on the target, and so closer than the
\* minimum front distance
C10_Witness ==
  /\ last.op = "lookAt"
  /\ IsZeroVector(last.args.up)
  /\ last.args.eye = last.args.target
  /\ last.status = InvalidUpVector

LookAtCase ==
  LET a == last.args
      focusDist == distance(a.eye, a.target)
      frontDistance == lookAtFrontDistance(IF Truthy(a.front) THEN a.front[1]
                                                             ELSE getFrontDistance(last.pre),
                                           focusDist, minimumFrontDistance(last.pre))
      backDistance == lookAtBackDistance(IF Truthy(a.back) THEN a.back[1]
                                                           ELSE getBackDistance(last.pre),
                                         focusDist)
  IN  [x |-> IF a.newExtents # None THEN RAbs(a.newExtents[1][1]) ELSE last.pre.extents[1],
       y |-> IF a.newExtents # None THEN RAbs(a.newExtents[1][2]) ELSE last.pre.extents[2],
       focusDist |-> focusDist,
       zVec |-> VScale(VSub(a.eye, a.target), RInv(focusDist)),
       frontDistance |-> frontDistance,
       depth |-> RSub(backDistance, frontDistance)]

C13_MaxDisplayDepth ==
  (/\ last.op = "lookAt"
   /\ last.status \notin {InvalidUpVector, InvalidTargetPoint, MinWindow, MaxWindow}) =>
    LET c == LookAtCase
        m == RMin(RAbs(c.zVec[1]), RAbs(c.zVec[2]))
        ratio == IF m = Zero THEN I(100000000)
                 ELSE RMin(RDiv(I(100000), m), I(100000000))
        size == RMax(c.x, c.y)
    IN  /\ RLe(ratio, I(100000000))
        /\ last.status = MaxDisplayDepth <=>
             IF size = Zero THEN RGt(c.depth, Zero) ELSE RGt(RDiv(c.depth, size), ratio)

\* A depth of 113000 on a rectangle of 0.0011 seen along an axis whose x
\* component is 1/1059: 1e5 / (1/1059) is above 1e8, and the depth is above
\* 0.0011 * 1e8 and below 0.0011 * 1.059e8
C13_Witness ==
  /\ last.op = "lookAt"
  /\ last.status = MaxDisplayDepth
  /\ last.args.eye = V(1, 46, 1058)
  /\ RGt(LookAtCase.depth, I(110000))
  /\ RLt(LookAtCase.depth, I(116490))

\* C14: with eye and target farther apart than the minimum front distance
\* and an up vector that is neither zero nor along the axis,
\* lookAtUsingLensAngle returns InvalidLens and leaves the view as it was for
\* every angle that is at most 0 or at least pi, and returns Success for
\* 0.0001 and for an angle just under pi.
C14_InvalidLens ==
  LET a == last.args
  IN  (/\ last.op = "lookAtUsingLensAngle"
       /\ RGt(distance(a.eye, a.target), minimumFrontDistance(last.pre))
       /\ ~IsZeroVector(crossProduct(a.up, VSub(a.eye, a.target)))) =>
        /\ (RLe(a.fov.radians, Zero) \/ RGe(a.fov.radians, PI)) =>
             (last.status = InvalidLens /\ SameViewParameters(view, last.pre))
        /\ a.fov.radians \in {R(1, 10000), R(313959265, 100000000)} =>
             last.status = Success

\* C20: reading extentLimits after assigning L returns L, reading it after
\* resetExtentLimits returns 1 mm to the diameter of the earth (both kinds of
\* view are spatial), and every other call leaves what extentLimits returns
\* as it was, so that the value assigned or restored survives any number of
\* calls.
C20_ExtentLimitsKept ==
  /\ last.op = "setExtentLimits" => extentLimits(view) = last.args
  /\ last.op = "resetExtentLimits" =>
       extentLimits(view) = [min |-> R(1, 1000), max |-> I(12742000)]
  /\ last.op \notin {"new", "setExtentLimits", "resetExtentLimits"} =>
       extentLimits(view) = extentLimits(last.pre)

\* Limits no view starts with, read back after the assignment and a
\* successful lookAtUsingLensAngle that followed it
C20_Witness ==
  /\ ops = 2
  /\ last.op = "lookAtUsingLensAngle"
  /\ last.status = Success
  /\ view.extents # last.pre.extents
  /\ extentLimits(view) = WideLimits

\* The compression of a frustum: the distance LeftBottomFront-RightBottomFront
\* over the distance LeftBottomRear-RightBottomRear
Compression(f) == RDiv(distance(f[5], f[6]), distance(f[1], f[2]))

\* C15: when ViewState3d.setupFromFrustum returns Success on a view that
\* supports a camera, then for a compression of at least 1 - 1e-6 the camera
\* is off and its eye point, focus distance and lens angle are what they
\* were, and for a smaller compression the camera is on, the eye is the back
\* corner plus the edge to the front corner over (1 - compression), the focus
\* plane is half the depth in front of the back plane, the origin is the back
\* corner drawn towards the eye onto the focus cone and set back to the back
\* plane, and the lens angle is the one the extents and the focus distance
\* form.
C15_CameraFollowsTaper ==
  (/\ last.op \in {"setupFromFrustum", "roundTrip"}
   /\ last.status = Success
   /\ last.pre.kind # Orthographic) =>
    LET f == last.args
        c == Compression(f)
        eye == VAdd(f[1], VScale(VSub(f[5], f[1]), RInv(RSub(One, c))))
        back == dotProduct(VSub(eye, f[1]), view.rotation[3])
        focus == RSub(back, RMul(view.extents[3], Half))
    IN  IF RGe(c, R(999999, 1000000))
          THEN ~view.cameraOn /\ view.camera = last.pre.camera
          ELSE /\ view.cameraOn
               /\ view.camera.eye = eye
               /\ view.camera.focusDist = focus
               /\ view.origin =
                    VAdd(VSub(eye, VScale(VSub(eye, f[1]), RDiv(focus, back))),
                         VScale(view.rotation[3], RSub(focus, back)))
               /\ view.camera.lens =
                    RDiv(RMul(RMax(view.extents[1], view.extents[2]), Half),
                         view.camera.focusDist)

\* A frustum whose front is narrower than its back by exactly 1e-6 of it,
\* solved on a view whose camera was on: the camera is off
C15_Witness ==
  /\ last.op = "setupFromFrustum"
  /\ last.status = Success
  /\ last.pre.kind = Spatial
  /\ last.pre.cameraOn
  /\ Compression(last.args) = R(999999, 1000000)
  /\ ~view.cameraOn

\* The frustum is a box: front face equal to the back face moved along the
\* depth edge, the three edges of the back corner mutually perpendicular
IsBox(f) ==
  LET x == VSub(f[2], f[1])
      y == VSub(f[3], f[1])
      z == VSub(f[5], f[1])
  IN  /\ f[4] = VAdd(f[2], y)
      /\ \A i \in 1..4 : f[i + 4] = VAdd(f[i], z)
      /\ dotProduct(x, y) = Zero /\ dotProduct(x, z) = Zero /\ dotProduct(y, z) = Zero

ViewCentre(v) == VAdd(multiplyVector(v.rotation, v.origin), VScale(v.extents, Half))

\* The size of the volume, its depth raised to one millimetre, dilated by 1.04
Dilated(volume) ==
  LET size == VSub(volume.high, volume.low)
  IN  VScale(<<size[1], size[2], RMax(size[3], oneMillimeter)>>, R(104, 100))

\* a and b differ by less than a relative 1e-9 of b
AspectMatches(a, b) == RLt(RAbs(RSub(One, RDiv(a, b))), R(1, 1000000000))

C18_CameraOnIgnoresMargin ==
  (last.op = "lookAtViewAlignedVolume" /\ last.pre.cameraOn) =>
    \A m \in MarginArgs :
      lookAtViewAlignedVolume(last.pre, last.args.volume, last.args.aspect, m).view = view

\* A volume fitted with margins on a view whose camera is on
C18_Witness ==
  /\ last.op = "lookAtViewAlignedVolume"
  /\ last.pre.cameraOn
  /\ last.pre.kind = Spatial
  /\ last.args.margin # None
  /\ ~isNull(last.args.volume)
  /\ view.extents # last.pre.extents
  /\ view.camera.eye # last.pre.camera.eye

\* C19: adjustAspectRatio(windowAspect): when x / y differs from windowAspect
\* times the skew by a relative 1e-9 or more, one of x and y is greater than
\* before and the other the same, x / y is windowAspect times the skew, z is
\* the same and the centre of the view box in view coordinates is where it
\* was; otherwise the view is unchanged.
C19_AspectGrowsShorterAxis ==
  last.op = "adjustAspectRatio" =>
    LET pre == last.pre
        wanted == RMul(last.args, getAspectRatioSkew(pre))
    IN  IF AspectMatches(RDiv(pre.extents[1], pre.extents[2]), wanted) THEN view = pre
        ELSE /\ \/ view.extents[1] = pre.extents[1] /\ RGt(view.extents[2], pre.extents[2])
                \/ view.extents[2] = pre.extents[2] /\ RGt(view.extents[1], pre.extents[1])
             /\ RDiv(view.extents[1], view.extents[2]) = wanted
             /\ view.extents[3] = pre.extents[3]
             /\ ViewCentre(view) = ViewCentre(pre)

\* A square view adjusted to a window aspect that differs from 1 by exactly
\* a relative 1e-9: y has grown
C19_Witness ==
  /\ last.op = "adjustAspectRatio"
  /\ last.args = R(1000000000, 1000000001)
  /\ last.pre.extents[1] = last.pre.extents[2]
  /\ view.extents[1] = last.pre.extents[1]
  /\ RGt(view.extents[2], last.pre.extents[2])

\* C23: the base setupFromFrustum returns InvalidWindow when, in the frustum
\* with its point order fixed, the X and Y edges from the LeftBottomRear
\* corner are null or parallel or the Z edge points against X cross Y; the
\* origin, extents and rotation are then what they were and the caller's
\* frustum is what it was.
C23_NoBasisLeavesView ==
  LET f == fixPointOrder(last.args)
      n == crossProduct(VSub(f[RightBottomRear], f[LeftBottomRear]),
                        VSub(f[LeftTopRear], f[LeftBottomRear]))
  IN  (/\ last.op \in {"setupFromFrustum", "roundTrip"}
       /\ \/ IsZeroVector(n)
          \/ RSign(dotProduct(n, VSub(f[LeftBottomFront], f[LeftBottomRear]))) < 0) =>
        /\ last.out = InvalidWindow
        /\ last.status = InvalidWindow
        /\ view.origin = last.pre.origin
        /\ view.extents = last.pre.extents
        /\ view.rotation = last.pre.rotation
        /\ last.frustum = last.args

\* A mirrored frustum that is left-handed after its point order is fixed:
\* rejected, the caller's corners in the order they were given
C23_Witness ==
  /\ last.op = "setupFromFrustum"
  /\ hasMirror(last.args)
  /\ fixPointOrder(last.args) # last.args
  /\ ~IsZeroVector(crossProduct(VSub(last.args[2], last.args[1]), VSub(last.args[3], last.args[1])))
  /\ last.out = InvalidWindow
  /\ last.frustum = last.args
  /\ SameViewParameters(view, last.pre)

\* C24: after lookAt returns Success the back distance is at least the
\* focus distance plus half a metre, the front distance (the back distance
\* less extents.z) is at least half a metre, and the front distance is at
\* most the focus distance less minimumFrontDistance().
C24_LookAtDistancesBounded ==
  (last.op = "lookAt" /\ last.status = Success) =>
    /\ RGe(getBackDistance(view), RAdd(view.camera.focusDist, RMul(Half, oneMeter)))
    /\ RGe(getFrontDistance(view), RMul(Half, oneMeter))
    /\ RLe(getFrontDistance(view),
           RSub(view.camera.focusDist, minimumFrontDistance(last.pre)))

\* C22: a call that asks for extents outside the extent limits in some
\* dimension fails and leaves the extents what they were: lookAt with a
\* newExtents outside the limits, setupFromFrustum with a box that has an
\* edge outside them, lookAtViewAlignedVolume with the camera off, no margin
\* and a dilated volume outside them.
C22_ExceedingLimitsFails ==
  LET lim == extentLimits(last.pre)
  IN  /\ (/\ last.op = "lookAt"
          /\ last.args.newExtents # None
          /\ \E i \in 1..2 : ~InLimits(lim, RAbs(last.args.newExtents[1][i]))) =>
           (last.status # Success /\ view.extents = last.pre.extents)
      /\ (/\ last.op = "setupFromFrustum"
          /\ IsBox(last.args)
          /\ \E i \in {2, 3, 5} : ~InLimits(lim, distance(last.args[1], last.args[i]))) =>
           (last.status # Success /\ view.extents = last.pre.extents)
      /\ (/\ last.op = "lookAtViewAlignedVolume"
          /\ ~last.pre.cameraOn
          /\ ~isNull(last.args.volume)
          /\ last.args.margin = None
          /\ \E i \in 1..3 : ~InLimits(lim, Dilated(last.args.volume)[i])) =>
           view.extents = last.pre.extents

\* C26: computeWorldToNpc returns the fraction 1 for a 2D view and for a view
\* with the camera off.  With the camera on it returns zFront / zBack, the
\* eye-space depths of the front and back planes, when that is nearScale24
\* or more; otherwise it returns nearScale24 exactly, and the mapping has
\* its back plane at zBack, no more than 10 km behind the eye, and its front
\* plane at zBack * nearScale24.  The fraction is never below nearScale24.
C26_FrustFraction ==
  LET v == last.pre
      zBack == RNeg(getBackDistance(v))
      zFront == RAdd(zBack, v.extents[3])
      limited == RMax(zBack, RNeg(RMul(I(10), oneKilometer)))
      map == last.out.map[1]
  IN  last.op = "computeWorldToNpc" =>
        IF ~is3d(v) \/ ~v.cameraOn THEN last.out.frustFraction = One
        ELSE /\ RGe(last.out.frustFraction, nearScale24)
             /\ IF RGe(RDiv(zFront, zBack), nearScale24)
                  THEN last.out.frustFraction = RDiv(zFront, zBack)
                  ELSE /\ last.out.frustFraction = nearScale24
                       /\ last.out.map # None =>
                            /\ dotProduct(v.rotation[3], VSub(map.origin, v.camera.eye)) = limited
                            /\ dotProduct(v.rotation[3], map.wVector)
                                 = RSub(RMul(limited, nearScale24), limited)

\* A mapping computed with the camera on for a view whose back plane is more
\* than 10 km behind the eye and whose front plane is too near for it
C26_Witness ==
  /\ last.op = "computeWorldToNpc"
  /\ is3d(last.pre) /\ last.pre.cameraOn
  /\ RGt(getBackDistance(last.pre), RMul(I(10), oneKilometer))
  /\ RLt(RDiv(getFrontDistance(last.pre), getBackDistance(last.pre)), nearScale24)
  /\ last.out.map # None
  /\ last.out.frustFraction = nearScale24

\* C27: computeWorldToNpc and calculateFrustum leave the view as it was, also
\* when the guard against a near front plane replaces the depths it maps;
\* calculateFrustum returns no frustum exactly when there is no mapping.
C27_MappingLeavesView ==
  /\ last.op \in {"computeWorldToNpc", "calculateFrustum"} => view = last.pre
  /\ last.op = "calculateFrustum" =>
       (last.out = None <=> computeWorldToNpc(last.pre).map = None)

\* A frustum calculated for a view with the camera on whose front plane the
\* guard moved, and no frustum for a view of a drawing, which has no depth
C27_Witness ==
  /\ last.op = "calculateFrustum"
  /\ \/ /\ is3d(last.pre) /\ last.pre.cameraOn
        /\ RLt(RDiv(getFrontDistance(last.pre), getBackDistance(last.pre)), nearScale24)
        /\ last.out # None
     \/ ~is3d(last.pre) /\ last.out = None
\* C21: after centerFocusDistance on a view with the camera on, the focus
\* distance is the midpoint of the front and back distances measured before
\* the call, and the eye point, the lens angle, the rotation, the back
\* distance and the front distance are as before the call.
C21_FocusCentred ==
  (last.op = "centerFocusDistance" /\ last.pre.cameraOn) =>
    /\ view.camera.focusDist
         = RMul(RAdd(getFrontDistance(last.pre), getBackDistance(last.pre)), Half)
    /\ view.camera.eye = last.pre.camera.eye
    /\ view.camera.lens = last.pre.camera.lens
    /\ view.rotation = last.pre.rotation
    /\ getBackDistance(view) = getBackDistance(last.pre)
    /\ getFrontDistance(view) = getFrontDistance(last.pre)
\* C28: verifyFocusPlane changes nothing when the camera is off.  With the
\* camera on and positive front and back distances the focus distance is
\* afterwards strictly between them: one that already was is kept, any other
\* is set to the front distance plus half the depth, the extents in x and y
\* are scaled by the new focus distance over the old and the origin is
\* derived again from the eye; eye point, rotation, depth and back distance
\* stay as they were.
C28_FocusPlaneVerified ==
  LET v == last.pre
      back == getBackDistance(v)
      front == getFrontDistance(v)
      between == RGt(v.camera.focusDist, front) /\ RLt(v.camera.focusDist, back)
      focus == RAdd(front, RMul(v.extents[3], Half))
      ratio == RDiv(focus, v.camera.focusDist)
  IN  last.op = "verifyFocusPlane" =>
        IF ~v.cameraOn THEN view = v
        ELSE (RGt(back, Zero) /\ RGt(front, Zero)) =>
               /\ RLt(getFrontDistance(view), view.camera.focusDist)
               /\ RLt(view.camera.focusDist, getBackDistance(view))
               /\ between => view = v
               /\ ~between =>
                    /\ view.camera.focusDist = focus
                    /\ view.extents[1] = RMul(v.extents[1], ratio)
                    /\ view.extents[2] = RMul(v.extents[2], ratio)
                    /\ view.origin
                         = VSub(VSub(VSub(v.camera.eye, VScale(v.rotation[3], back)),
                                     VScale(v.rotation[1], RMul(view.extents[1], Half))),
                                VScale(v.rotation[2], RMul(view.extents[2], Half)))
               /\ view.camera.eye = v.camera.eye
               /\ view.rotation = v.rotation
               /\ view.extents[3] = v.extents[3]
               /\ getBackDistance(view) = back

\* A focus plane in front of the front plane or behind the back plane of a
\* view with the camera on, put back between them with the extents rescaled
C28_Witness ==
  /\ last.op = "verifyFocusPlane"
  /\ last.pre.cameraOn
  /\ RGt(getFrontDistance(last.pre), Zero)
  /\ \/ RLe(last.pre.camera.focusDist, getFrontDistance(last.pre))
     \/ RGe(last.pre.camera.focusDist, getBackDistance(last.pre))
  /\ view.camera.focusDist # last.pre.camera.focusDist
  /\ view.extents # last.pre.extents
\* C30: a snapshot holds the values the view had when it was saved, whatever
\* was done to the view since; and setFromUndo makes the camera flag, origin,
\* extents, rotation and camera of a 3D view, or the origin, delta and angle
\* of a 2D view, those of the snapshot, so that equalState is true.
C30_SnapshotIndependent ==
  LET val == undo[1].val
      saved == undo[1].saved
  IN  undo # None =>
        /\ IF is3d(saved)
             THEN /\ val.cameraOn = saved.cameraOn
                  /\ Held(val.origin, view.origin) = saved.origin
                  /\ Held(val.extents, view.extents) = saved.extents
                  /\ Held(val.rotation, view.rotation) = saved.rotation
                  /\ Held(val.camera, view.camera) = saved.camera
             ELSE /\ Held(val.origin, view.origin) = saved.origin
                  /\ Held(val.delta, view.delta) = saved.delta
                  /\ Held(val.angle, view.angle) = saved.angle
        /\ last.op = "setFromUndo" =>
             /\ equalState(val, view)
             /\ IF is3d(view)
                  THEN /\ view.cameraOn = saved.cameraOn /\ view.origin = saved.origin
                       /\ view.extents = saved.extents /\ view.rotation = saved.rotation
                       /\ view.camera = saved.camera
                  ELSE /\ view.origin = saved.origin /\ view.delta = saved.delta
                       /\ view.angle = saved.angle

\* A snapshot restored into a view that had changed since it was saved
C30_Witness ==
  /\ undo # None
  /\ last.op = "setFromUndo"
  /\ last.pre # undo[1].saved
  /\ view = undo[1].saved
\* C29: an OrthographicViewState created with the camera off has the camera
\* off in every state reached by lookAt, lookAtUsingLensAngle,
\* setupFromFrustum, moveCameraWorld, rotateCameraWorld,
\* lookAtViewAlignedVolume and setFromUndo of its own snapshots.
C29_OrthographicCameraOff == view.kind = Orthographic => ~view.cameraOn

\* A tapered frustum solved, and a camera positioned by lookAt, on an
\* orthographic view, both with Success
C29_Witness ==
  /\ view.kind = Orthographic
  /\ last.status = Success
  /\ \/ last.op = "setupFromFrustum" /\ Compression(last.args) # One
     \/ last.op = "lookAt" /\ view.rotation # last.pre.rotation
====
